---- MODULE Spec2Model ----
(***************************************************************************)
(* The ndoors door game: the Room state machine of src/src/lib.rs and the  *)
(* websocket server of src/src/server.rs that multiplexes connections onto *)
(* a registry of rooms.                                                    *)
(*                                                                         *)
(* Spec        one Room driven by arbitrary calls of its public methods.   *)
(* ServerSpec  the server: connections, their request handlers and         *)
(*             websocket loops, and the registry of rooms.                 *)
(***************************************************************************)
EXTENDS Integers, Naturals, Sequences, FiniteSets, TLC

\* ------------------------------------------------------------------ bounds
\* Settings.doors ranges over 0..MaxDoors and Settings.rounds over
\* 0..MaxRounds (Settings::new takes any u32 pair and nothing validates it).
MaxDoors == 3
MaxRounds == 2
\* A room whose rounds is 0 never ends its game in a build without overflow
\* checks (rounds - 1 wraps to 2^32 - 1); its current_round is cut off here.
RoundCap == 1
\* Contestant ids offered to accept_contestant.
NumContestants == 2
\* The size of a game, doors times the rounds it can play, is at most MaxGame.
MaxGame == 4

\* ServerSpec: connections, and rooms ever created (a room id is a fresh
\* Uuid, never used twice).
NumConns == 3
NumPlayers == 2
MaxRooms == 3
PlayRooms == 1
\* Responses a connection's channel holds before a send to it has to wait.
\* The server's channels hold 16 (server.rs:56); the model keeps the blocking
\* and the failure of a send, with a smaller queue.
RespCap == 1
ReqCap == 1
\* ServerSpec follows a room's game up to current_round = ServerRoundCap.
ServerRoundCap == 0
\* The largest explicit door index a client sends in ServerSpec.
MaxIndex == 0

Doors == 0..MaxDoors
Rounds == 0..MaxRounds
\* The Settings values the model creates rooms with and passes to
\* update_settings; rounds = 0 counts as the RoundCap + 1 rounds it can play.
SettingsSet ==
    {s \in [doors : Doors, rounds : Rounds] :
        s.doors * (IF s.rounds = 0 THEN RoundCap + 1 ELSE s.rounds) <= MaxGame}
\* An explicit door index a caller may pass: in range or out of range.
Indexes == 0..(MaxDoors + 1)
ContestantIds == 1..NumContestants
Decisions == {"Switch", "Stick"}

VARIABLES
    room,             \* the Room of Spec: [settings, state]
    last,             \* the last Room method called: [op, arg, res, pre]
    overflow_checks,  \* build profile: TRUE when u32 arithmetic panics on overflow
    rooms,            \* Server::rooms: room id -> RoomAgent, for the ids present
    h,                \* request_handler of each connection: its User and progress
    resp,             \* the response channel of each connection (queued messages)
    ws,               \* whether the connection's websocket_loop is running
    next_room,        \* the next fresh room id
    clients,          \* what the client of each connection sends
    req,              \* the request channel of each connection
    pending           \* the request each websocket loop is sending, if any

rvars == <<room, last>>
qvars == <<req, pending>>
svars == <<rooms, h, resp, ws, next_room, clients, req, pending>>
vars == <<room, last, overflow_checks, rooms, h, resp, ws, next_room, clients,
          req, pending>>

\* ----------------------------------------------------------- data model
Created == [tag |-> "Created"]
Joined(c, r) == [tag |-> "Joined", contestant |-> c, ready |-> r]
Started(c, cr, p, rs, st) ==
    [tag |-> "Started", contestant |-> c, current_round |-> cr, prize |-> p,
     results |-> rs, stage |-> st]

StageChoose == [tag |-> "Choose"]
StageReveal(ch) == [tag |-> "Reveal", chosen |-> ch]
StageDecide(ch, l) == [tag |-> "Decide", chosen |-> ch, left |-> l]
StageEnd(r) == [tag |-> "End", result |-> r]

RoundResult(p, ch, l, d, w) ==
    [prize |-> p, chosen |-> ch, left |-> l, decision |-> d, win |-> w]

is_end(stage) == stage.tag = "End"

\* Result<T>: Ok(v), Err(e); a panic unwinds out of the method.
Ok(v) == [kind |-> "Ok", val |-> v]
Err(e) == [kind |-> "Err", val |-> e]
Panic(why) == [kind |-> "Panic", val |-> why]
Unit == "()"

Ret(r, res) == [room |-> r, res |-> res]
WithState(r, s) == [r EXCEPT !.state = s]

\* Room::create: the given settings, state Created.
create(settings) == [settings |-> settings, state |-> Created]

\* `current_round < rounds - 1` on u32.  With rounds = 0 the subtraction
\* overflows: a build with overflow checks panics, one without wraps to
\* 2^32 - 1, which is above every current_round the model reaches.
\* "T", "F" or "Panic".
RoundLtLast(cr, rounds) ==
    IF rounds = 0
    THEN (IF overflow_checks THEN "Panic" ELSE "T")
    ELSE (IF cr < rounds - 1 THEN "T" ELSE "F")

\* `current_round >= rounds - 1` on u32, likewise.
RoundGeLast(cr, rounds) ==
    IF rounds = 0
    THEN (IF overflow_checks THEN "Panic" ELSE "F")
    ELSE (IF cr >= rounds - 1 THEN "T" ELSE "F")

\* ------------------------------------------------------- Room's methods
\* accept_contestant as it would be without the match on the state.
accept_contestant_AnyState(r, contestant) ==
    Ret(WithState(r, Joined(contestant, FALSE)), Ok(Unit))

accept_contestant(r, contestant) ==
    IF r.state.tag = "Created"
    THEN Ret(WithState(r, Joined(contestant, FALSE)), Ok(Unit))
    ELSE Ret(r, Err("InvalidOperation"))

kick_contestant(r) ==
    IF r.state.tag \in {"Joined", "Started"}
    THEN Ret(WithState(r, Created), Ok(Unit))
    ELSE Ret(r, Err("InvalidOperation"))

contestant_ready(r, ready) ==
    IF r.state.tag = "Joined"
    THEN Ret(WithState(r, [r.state EXCEPT !.ready = ready]), Ok(Unit))
    ELSE Ret(r, Err("InvalidOperation"))

\* update_settings as it would be if it reset `ready` on every call.
update_settings_AlwaysReset(r, settings) ==
    CASE r.state.tag = "Created" ->
           Ret([r EXCEPT !.settings = settings], Ok(FALSE))
      [] r.state.tag = "Joined" ->
           Ret([settings |-> settings,
                state |-> [r.state EXCEPT !.ready = FALSE]], Ok(TRUE))
      [] OTHER -> Ret(r, Err("InvalidOperation"))

\* update_settings as it would be if a started game took new settings.
update_settings_InGame(r, settings) ==
    CASE r.state.tag = "Joined" ->
           LET notify_contestant == r.settings # settings
           IN  IF notify_contestant
               THEN Ret([settings |-> settings,
                         state |-> [r.state EXCEPT !.ready = FALSE]], Ok(TRUE))
               ELSE Ret(r, Ok(FALSE))
      [] OTHER -> Ret([r EXCEPT !.settings = settings], Ok(FALSE))

update_settings(r, settings) ==
    CASE r.state.tag = "Created" ->
           Ret([r EXCEPT !.settings = settings], Ok(FALSE))
      [] r.state.tag = "Joined" ->
           LET notify_contestant == r.settings # settings
           IN  IF notify_contestant
               THEN Ret([settings |-> settings,
                         state |-> [r.state EXCEPT !.ready = FALSE]], Ok(TRUE))
               ELSE Ret(r, Ok(FALSE))
      [] OTHER -> Ret(r, Err("InvalidOperation"))

\* The match of start and start_random once the prize is known.
StartWith(r, prize, okval) ==
    CASE r.state.tag = "Joined" /\ r.state.ready ->
           Ret(WithState(r, Started(r.state.contestant, 0, prize, <<>>, StageChoose)),
               Ok(okval))
      [] r.state.tag = "Started" /\ is_end(r.state.stage) ->
           LET lt == RoundLtLast(r.state.current_round, r.settings.rounds)
           IN  CASE lt = "Panic" -> Ret(r, Panic("attempt to subtract with overflow"))
                 [] lt = "T" ->
                      Ret(WithState(r, [r.state EXCEPT
                                           !.current_round = @ + 1,
                                           !.stage = StageChoose,
                                           !.prize = prize]),
                          Ok(okval))
                 [] OTHER -> Ret(r, Err("InvalidOperation"))
      [] OTHER -> Ret(r, Err("InvalidOperation"))

\* Whether start_random reaches one of its two gen_range(0..doors) calls.
StartDraws(r) ==
    \/ r.state.tag = "Joined" /\ r.state.ready
    \/ /\ r.state.tag = "Started"
       /\ is_end(r.state.stage)
       /\ RoundLtLast(r.state.current_round, r.settings.rounds) = "T"

\* start_random: `random` is the value gen_range(0..doors) draws; the range
\* is empty when doors = 0 and gen_range panics.
start_random(r, random) ==
    IF StartDraws(r) /\ r.settings.doors = 0
    THEN Ret(r, Panic("cannot sample empty range"))
    ELSE StartWith(r, random, random)

start(r, prize) ==
    IF prize >= r.settings.doors
    THEN Ret(r, Err("InvalidDoorIndex"))
    ELSE StartWith(r, prize, Unit)

\* ChooseWith as it would be if a choice could be made again in stage Reveal.
ChooseWith_Rechoose(r, chosen, okval) ==
    IF r.state.tag = "Started" /\ r.state.stage.tag \in {"Choose", "Reveal"}
    THEN Ret(WithState(r, [r.state EXCEPT !.stage = StageReveal(chosen)]), Ok(okval))
    ELSE Ret(r, Err("InvalidOperation"))

\* The match of choose and choose_random once the door is known.
ChooseWith(r, chosen, okval) ==
    IF r.state.tag = "Started" /\ r.state.stage.tag = "Choose"
    THEN Ret(WithState(r, [r.state EXCEPT !.stage = StageReveal(chosen)]), Ok(okval))
    ELSE Ret(r, Err("InvalidOperation"))

choose_random(r, random) ==
    IF r.state.tag = "Started" /\ r.state.stage.tag = "Choose" /\ r.settings.doors = 0
    THEN Ret(r, Panic("cannot sample empty range"))
    ELSE ChooseWith(r, random, random)

\* A choose that looks at the state before the index.
choose_StateFirst(r, chosen) ==
    IF r.state.tag # "Started"
    THEN Ret(r, Err("InvalidOperation"))
    ELSE IF chosen >= r.settings.doors
         THEN Ret(r, Err("InvalidDoorIndex"))
         ELSE ChooseWith(r, chosen, Unit)

choose(r, chosen) ==
    IF chosen >= r.settings.doors
    THEN Ret(r, Err("InvalidDoorIndex"))
    ELSE ChooseWith(r, chosen, Unit)

\* random_door(doors, exclusive): `random` is what gen_range(0..doors) draws.
\* -1 stands for the failed assertion exclusive < doors.
random_door(doors, exclusive, random) ==
    IF ~(exclusive < doors)
    THEN -1
    ELSE IF random >= exclusive THEN random + 1 ELSE random

reveal_random(r, random) ==
    IF r.state.tag = "Started" /\ r.state.stage.tag = "Reveal"
    THEN LET chosen == r.state.stage.chosen
             left == IF chosen = r.state.prize
                     THEN random_door(r.settings.doors, chosen, random)
                     ELSE r.state.prize
         IN  IF left = -1
             THEN Ret(r, Panic("assertion failed: exclusive < doors"))
             ELSE Ret(WithState(r, [r.state EXCEPT !.stage = StageDecide(chosen, left)]),
                      Ok(left))
    ELSE Ret(r, Err("InvalidOperation"))

\* reveal as it would be without the rule that a missed prize must be left.
reveal_AnyOther(r, left) ==
    IF left >= r.settings.doors
    THEN Ret(r, Err("InvalidDoorIndex"))
    ELSE IF r.state.tag = "Started" /\ r.state.stage.tag = "Reveal"
         THEN IF left = r.state.stage.chosen
              THEN Ret(r, Err("InvalidOperation"))
              ELSE Ret(WithState(r, [r.state EXCEPT
                                        !.stage = StageDecide(r.state.stage.chosen, left)]),
                       Ok(Unit))
         ELSE Ret(r, Err("InvalidOperation"))

reveal(r, left) ==
    IF left >= r.settings.doors
    THEN Ret(r, Err("InvalidDoorIndex"))
    ELSE IF r.state.tag = "Started" /\ r.state.stage.tag = "Reveal"
         THEN LET chosen == r.state.stage.chosen
                  prize == r.state.prize
              IN  IF left = chosen \/ (chosen # prize /\ left # prize)
                  THEN Ret(r, Err("InvalidOperation"))
                  ELSE Ret(WithState(r, [r.state EXCEPT
                                            !.stage = StageDecide(chosen, left)]),
                           Ok(Unit))
         ELSE Ret(r, Err("InvalidOperation"))

\* win_the_prize with the two decisions swapped.
win_the_prize_Swapped(chosen, left, decision, prize) ==
    \/ decision = "Switch" /\ chosen = prize
    \/ decision = "Stick" /\ left = prize

\* matches!((chosen, left, decision),
\*          (p, _, Stick) | (_, p, Switch) if p == prize)
win_the_prize(chosen, left, decision, prize) ==
    \/ decision = "Stick" /\ chosen = prize
    \/ decision = "Switch" /\ left = prize

\* decide as it would be if it did not record the result.
decide_NoPush(r, decision) ==
    IF r.state.tag = "Started" /\ r.state.stage.tag = "Decide"
    THEN LET chosen == r.state.stage.chosen
             left == r.state.stage.left
             result == RoundResult(r.state.prize, chosen, left, decision,
                                   win_the_prize(chosen, left, decision, r.state.prize))
         IN  Ret(WithState(r, [r.state EXCEPT !.stage = StageEnd(result)]), Ok(result))
    ELSE Ret(r, Err("InvalidOperation"))

decide(r, decision) ==
    IF r.state.tag = "Started" /\ r.state.stage.tag = "Decide"
    THEN LET chosen == r.state.stage.chosen
             left == r.state.stage.left
             result == RoundResult(r.state.prize, chosen, left, decision,
                                   win_the_prize(chosen, left, decision, r.state.prize))
         IN  Ret(WithState(r, [r.state EXCEPT
                                  !.results = Append(@, result),
                                  !.stage = StageEnd(result)]),
                 Ok(result))
    ELSE Ret(r, Err("InvalidOperation"))

complete(r, kick) ==
    IF r.state.tag = "Started" /\ is_end(r.state.stage)
    THEN LET ge == RoundGeLast(r.state.current_round, r.settings.rounds)
         IN  CASE ge = "Panic" -> Ret(r, Panic("attempt to subtract with overflow"))
               [] ge = "T" ->
                    Ret(WithState(r, IF kick THEN Created
                                     ELSE Joined(r.state.contestant, FALSE)),
                        Ok(r.state.results))
               [] OTHER -> Ret(r, Err("InvalidOperation"))
    ELSE Ret(r, Err("InvalidOperation"))

\* The values gen_range(0..doors) can draw; a single placeholder when the
\* range is empty (the call panics before using it).
Draws(doors) == IF doors = 0 THEN {0} ELSE 0..(doors - 1)

\* ------------------------------------------------------------ the server
Conns == 1..NumConns
RoomIds == 1..MaxRooms

\* Server::default: Settings::new(3, 10).
default_settings == [doors |-> 3, rounds |-> 10]
\* The Settings values clients send in ServerSpec.
ClientSettings == {[doors |-> 2, rounds |-> 1]}
\* A Settings value no game can be played with, as a client can send it.
BadSettings == {[doors |-> 1, rounds |-> 0]}

\* Settings without a door, as a client can send them.
EmptySettings == {[doors |-> 0, rounds |-> 1]}

\* Role
Guest == [tag |-> "Guest"]
HostOf(r) == [tag |-> "Host", room_id |-> r]
ContestantOf(r) == [tag |-> "Contestant", room_id |-> r]

\* Index: Random | Specified(u32)
Random == [type |-> "Random"]
Specified(i) == [type |-> "Specified", index |-> i]
IndexArgs == {Random} \cup {Specified(i) : i \in 0..MaxIndex}

\* Option<Settings>
None == [some |-> FALSE]
Some(s) == [some |-> TRUE, settings |-> s]

\* GameRequest
ListPages == {0}
ListSizes == {1}
Requests ==
    {[action |-> "ListRooms", page |-> p, size |-> n] : p \in ListPages, n \in ListSizes}
    \cup {[action |-> "EnterRoom", id |-> r] : r \in RoomIds}
    \cup {[action |-> "ExitRoom", id |-> r] : r \in RoomIds}
    \cup {[action |-> "Ready", ready |-> b] : b \in BOOLEAN}
    \cup {[action |-> "Choose", chosen |-> i] : i \in IndexArgs}
    \cup {[action |-> "Decide", decision |-> d] : d \in Decisions}
    \cup {[action |-> "CreateRoom", settings |-> o] :
             o \in {None} \cup {Some(st) : st \in ClientSettings \cup EmptySettings}}
    \cup {[action |-> "UpdateSettings", settings |-> st] :
             st \in ClientSettings \cup BadSettings}
    \cup {[action |-> "Start", prize |-> i] : i \in IndexArgs}
    \cup {[action |-> "Reveal", left |-> i] : i \in IndexArgs}
    \cup {[action |-> "Complete", kick_contestant |-> b] : b \in BOOLEAN}

\* RoomAgent: the room, the host's Sender and the contestant's (0: None).
\* A Sender is named by the connection whose response channel it feeds.
RoomAgent(rm, host, contestant) == [room |-> rm, host |-> host, contestant |-> contestant]
RoomInfo(id, settings) == [id |-> id, settings |-> settings]

\* GameResponse, and the two conversions From<Result<GameResponse>>.
Resp(type, val) == [resp |-> type, val |-> val]
GameError(cause) == Resp("GameError", cause)
RoomNotFound(id) == Resp("ServerError", [RoomNotFound |-> id])
FromResult(res, okresp) == IF res.kind = "Ok" THEN okresp ELSE GameError(res.val)

\* GameResult::calculate
calculate(doors, results) ==
    LET Count(P(_)) == Cardinality({i \in 1..Len(results) : P(results[i])})
        ChosenWin(x) == x.chosen = x.prize
        LeftWin(x) == x.left = x.prize
        IsSwitch(x) == x.decision = "Switch"
        IsStick(x) == x.decision = "Stick"
        Win(x) == x.win
        SwitchWin(x) == x.decision = "Switch" /\ x.win
        StickWin(x) == x.decision = "Stick" /\ x.win
    IN  [settings |-> [doors |-> doors, rounds |-> Len(results)],
         win |-> Count(Win), chosen_win |-> Count(ChosenWin),
         left_win |-> Count(LeftWin), switch |-> Count(IsSwitch),
         stick |-> Count(IsStick), switch_win |-> Count(SwitchWin),
         stick_win |-> Count(StickWin)]

\* A send the handler has still to make: the channel and the message.
To(c, m) == [to |-> c, msg |-> m]

\* RoomAgent::publish: to the host, then to the contestant if there is one;
\* a failed send returns before the next.
publish(ra, m) ==
    <<To(ra.host, m)>> \o (IF ra.contestant # 0 THEN <<To(ra.contestant, m)>> ELSE <<>>)

\* DashMap::insert and DashMap::remove.
Insert(reg, id, ra) == [x \in DOMAIN reg \cup {id} |-> IF x = id THEN ra ELSE reg[x]]
\* A remove that takes the first entry when the key is absent.
Remove_Another(reg, id) ==
    IF id \in DOMAIN reg \/ DOMAIN reg = {}
    THEN [x \in DOMAIN reg \ {id} |-> reg[x]]
    ELSE LET first == CHOOSE x \in DOMAIN reg : \A y \in DOMAIN reg : x <= y
         IN  [x \in DOMAIN reg \ {first} |-> reg[x]]
Remove(reg, id) == [x \in DOMAIN reg \ {id} |-> reg[x]]

\* A map without locks: every access goes through at once.
CanLock_Always(r) == TRUE
\* Whether the map's lock for a room id is free: a RefMut from get_mut holds
\* it until it is dropped; get_mut, insert, remove, len and iter wait for it.
CanLock(r) == \A c \in Conns : h[c].guard # r

\* The handler of a connection that is waiting for a request, as a Guest.
\* pc: recv (at receiver.recv()), blocked (has a request, and waits for the
\* map's lock of room `wait`), send (sending `out`, holding the RefMut
\* `guard`), remove (at the deferred rooms.remove), drop (returned; at
\* RoomDropper's drop), done.
\* then_*: what follows the last send. dropper: RoomDropper::id (0: None).
\* Of the request being handled: answer, whether the requester is sent a
\* GameError; pre, the entry the handler locked, as it found it; view, that
\* entry as the handler left it before its first send.
Idle(role, dropper) ==
    [pc |-> "recv", role |-> role, guard |-> 0, out |-> <<>>, wait |-> 0,
     then_guest |-> FALSE, then_clear |-> FALSE, then_remove |-> 0,
     dropper |-> dropper, answer |-> "none", pre |-> <<>>, view |-> <<>>]

\* The handler returns (a `?` on an Err, a panic, or recv() giving None): its
\* locals are dropped, the RefMut first, and then the RoomDropper removes its
\* room.
\* A return that drops the RoomDropper before the RefMut.
Returned_Holding(hc) ==
    [Idle(hc.role, hc.dropper) EXCEPT !.pc = IF hc.dropper # 0 THEN "drop" ELSE "done",
                                      !.guard = hc.guard]

Returned(hc) ==
    [Idle(hc.role, hc.dropper) EXCEPT !.pc = IF hc.dropper # 0 THEN "drop" ELSE "done"]

\* What the synchronous part of the handling of one request does: the
\* registry and role it leaves, the RefMut it holds on while sending, the
\* sends to make, and what follows the last send.
Plan(c) ==
    [rooms |-> rooms, role |-> h[c].role, guard |-> 0, out |-> <<>>,
     then_guest |-> FALSE, then_clear |-> FALSE, then_remove |-> 0,
     exit |-> FALSE, dropper |-> h[c].dropper, created |-> FALSE]

\* (GameRequest::ListRooms, _): `ord` is the order rooms.iter() yields.
OnListRooms(c, q, ord) ==
    LET total == Cardinality(DOMAIN rooms)
        skip == q.page * q.size
        n == IF skip >= Len(ord) THEN 0 ELSE Len(ord) - skip
        listed == [i \in 1..n |->
                      RoomInfo(ord[i + skip], rooms[ord[i + skip]].room.settings)]
    IN  [Plan(c) EXCEPT
           !.out = <<To(c, Resp("RoomList", [rooms |-> listed, page |-> q.page,
                                             size |-> q.size, total |-> total]))>>]

\* (GameRequest::EnterRoom, user)
OnEnterRoom(c, q) ==
    IF h[c].role.tag # "Guest"
    THEN [Plan(c) EXCEPT !.out = <<To(c, GameError("InvalidOperation"))>>]
    ELSE IF q.id \notin DOMAIN rooms
    THEN [Plan(c) EXCEPT !.out = <<To(c, RoomNotFound(q.id))>>]
    ELSE LET ra == rooms[q.id]
             acc == accept_contestant(ra.room, c)
             entered == [ra EXCEPT !.room = acc.room, !.contestant = c]
         IN  IF acc.res.kind # "Ok"
             THEN [Plan(c) EXCEPT !.exit = TRUE]
             ELSE [Plan(c) EXCEPT
                     !.rooms = [rooms EXCEPT ![q.id] = entered],
                     !.role = ContestantOf(q.id),
                     !.guard = q.id,
                     !.out = <<To(entered.host, Resp("RoomEntered", c)),
                               To(entered.contestant,
                                  Resp("ContestantRoomEntered",
                                       RoomInfo(q.id, acc.room.settings)))>>]

\* RoomDropper::set_room
set_room(reg, dropper, id) == IF dropper # 0 THEN Remove(reg, dropper) ELSE reg

\* CreateRoom as it would be without the match on the role.
OnCreateRoom_AnyRole(c, q) ==
    LET settings == IF q.settings.some THEN q.settings.settings
                    ELSE default_settings
    IN  [Plan(c) EXCEPT
           !.rooms = Insert(rooms, next_room, RoomAgent(create(settings), c, 0)),
           !.role = HostOf(next_room),
           !.dropper = next_room,
           !.created = TRUE,
           !.out = <<To(c, Resp("RoomCreated", RoomInfo(next_room, settings)))>>]

\* (GameRequest::CreateRoom, user)
OnCreateRoom(c, q) ==
    IF h[c].role.tag # "Guest"
    THEN [Plan(c) EXCEPT !.out = <<To(c, GameError("InvalidOperation"))>>]
    ELSE LET settings == IF q.settings.some THEN q.settings.settings
                         ELSE default_settings
             room_id == next_room
             ra == RoomAgent(create(settings), c, 0)
         IN  [Plan(c) EXCEPT
                !.rooms = set_room(Insert(rooms, room_id, ra), h[c].dropper, room_id),
                !.role = HostOf(room_id),
                !.dropper = room_id,
                !.created = TRUE,
                !.out = <<To(c, Resp("RoomCreated", RoomInfo(room_id, settings)))>>]

\* The arm without `user.role = Role::Guest`.
OnRoomNotFound_KeepRole(c, r) ==
    [Plan(c) EXCEPT !.out = <<To(c, RoomNotFound(r))>>]

\* The Role::Host and Role::Contestant arms when get_mut finds no room.
OnRoomNotFound(c, r) ==
    [Plan(c) EXCEPT !.out = <<To(c, RoomNotFound(r))>>, !.then_guest = TRUE]

\* A plan that holds the RefMut of room r while it sends.
Held(c, r) == [Plan(c) EXCEPT !.guard = r]
\* The entry of room r with its room replaced.
WithRoom(r, rm) == [rooms EXCEPT ![r].room = rm]

\* Role::Host { room_id }: `random` is what gen_range draws, if it is called.
OnHost(c, q, random) ==
    LET r == h[c].role.room_id IN
    IF r \notin DOMAIN rooms THEN OnRoomNotFound(c, r)
    ELSE
    LET ra == rooms[r] IN
    CASE q.action = "ExitRoom" ->
           [Held(c, r) EXCEPT
              !.role = Guest,
              !.out = publish(ra, Resp("Exited", c)),
              !.then_remove = r]
      [] q.action = "UpdateSettings" ->
           LET u == update_settings(ra.room, q.settings)
               response == Resp("SettingsUpdated",
                                [settings |-> q.settings, notify |-> u.res.val])
           IN  IF u.res.kind = "Ok"
               THEN [Held(c, r) EXCEPT
                       !.rooms = WithRoom(r, u.room),
                       !.out = IF u.res.val THEN publish(ra, response)
                               ELSE <<To(c, response)>>]
               ELSE [Held(c, r) EXCEPT !.out = <<To(c, GameError(u.res.val))>>]
      [] q.action = "Start" ->
           LET isRandom == q.prize.type = "Random"
               s == IF isRandom THEN start_random(ra.room, random)
                    ELSE start(ra.room, q.prize.index)
               prize == IF isRandom THEN s.res.val ELSE q.prize.index
           IN  CASE s.res.kind = "Panic" -> [Plan(c) EXCEPT !.exit = TRUE]
                 [] s.res.kind = "Ok" ->
                      [Held(c, r) EXCEPT
                         !.rooms = WithRoom(r, s.room),
                         !.out = <<To(ra.host, Resp("Started",
                                        [prize |-> prize, random |-> isRandom]))>>
                                 \o (IF ra.contestant # 0
                                     THEN <<To(ra.contestant,
                                               Resp("ContestantStarted",
                                                    [random |-> isRandom]))>>
                                     ELSE <<>>)]
                 [] OTHER -> [Held(c, r) EXCEPT
                                !.out = <<To(ra.host, GameError(s.res.val))>>]
      [] q.action = "Reveal" ->
           LET isRandom == q.left.type = "Random"
               v == IF isRandom THEN reveal_random(ra.room, random)
                    ELSE reveal(ra.room, q.left.index)
               left == IF isRandom THEN v.res.val ELSE q.left.index
           IN  IF v.res.kind = "Panic" THEN [Plan(c) EXCEPT !.exit = TRUE]
               ELSE [Held(c, r) EXCEPT
                       !.rooms = WithRoom(r, v.room),
                       !.out = publish(ra, FromResult(v.res,
                                   Resp("Revealed", [left |-> left, random |-> isRandom])))]
      [] q.action = "Complete" ->
           LET k == complete(ra.room, q.kick_contestant)
           IN  IF k.res.kind = "Panic" THEN [Plan(c) EXCEPT !.exit = TRUE]
               ELSE [Held(c, r) EXCEPT
                       !.rooms = WithRoom(r, k.room),
                       !.out = publish(ra, FromResult(k.res,
                                   Resp("Completed",
                                        IF k.res.kind = "Ok"
                                        THEN calculate(k.room.settings.doors, k.res.val)
                                        ELSE <<>>))),
                       !.then_clear = q.kick_contestant]
      [] OTHER ->
           [Held(c, r) EXCEPT !.out = <<To(c, GameError("InvalidOperation"))>>]

\* The Contestant arm without the test for a room back in Created.
OnContestant_NoKickTest(c, q, random) ==
    LET r == h[c].role.room_id IN
    IF r \notin DOMAIN rooms THEN OnRoomNotFound(c, r)
    ELSE
    LET ra == rooms[r] IN
    CASE q.action = "ExitRoom" ->
           [Held(c, r) EXCEPT
              !.rooms = WithRoom(r, kick_contestant(ra.room).room),
              !.role = Guest,
              !.out = publish(ra, Resp("Exited", c))]
      [] q.action = "Ready" ->
           LET y == contestant_ready(ra.room, q.ready)
           IN  [Held(c, r) EXCEPT
                  !.rooms = WithRoom(r, y.room),
                  !.out = publish(ra, FromResult(y.res,
                              Resp("Ready", [ready |-> q.ready])))]
      [] q.action = "Choose" ->
           LET isRandom == q.chosen.type = "Random"
               v == IF isRandom THEN choose_random(ra.room, random)
                    ELSE choose(ra.room, q.chosen.index)
               chosen == IF isRandom THEN v.res.val ELSE q.chosen.index
           IN  IF v.res.kind = "Panic" THEN [Plan(c) EXCEPT !.exit = TRUE]
               ELSE [Held(c, r) EXCEPT
                       !.rooms = WithRoom(r, v.room),
                       !.out = publish(ra, FromResult(v.res,
                                   Resp("Chosen", [chosen |-> chosen,
                                                   random |-> isRandom])))]
      [] q.action = "Decide" ->
           LET v == decide(ra.room, q.decision)
           IN  [Held(c, r) EXCEPT
                  !.rooms = WithRoom(r, v.room),
                  !.out = publish(ra, FromResult(v.res,
                              Resp("Decided", [result |-> v.res.val])))]
      [] OTHER ->
           [Held(c, r) EXCEPT !.out = <<To(c, GameError("InvalidOperation"))>>]

\* Role::Contestant { room_id }
OnContestant(c, q, random) ==
    LET r == h[c].role.room_id IN
    IF r \notin DOMAIN rooms THEN OnRoomNotFound(c, r)
    ELSE
    LET ra == rooms[r] IN
    IF ra.room.state.tag = "Created"
    THEN [Held(c, r) EXCEPT !.role = Guest, !.out = <<To(c, Resp("Exited", c))>>]
    ELSE
    CASE q.action = "ExitRoom" ->
           [Held(c, r) EXCEPT
              !.rooms = WithRoom(r, kick_contestant(ra.room).room),
              !.role = Guest,
              !.out = publish(ra, Resp("Exited", c))]
      [] q.action = "Ready" ->
           LET y == contestant_ready(ra.room, q.ready)
           IN  [Held(c, r) EXCEPT
                  !.rooms = WithRoom(r, y.room),
                  !.out = publish(ra, FromResult(y.res,
                              Resp("Ready", [ready |-> q.ready])))]
      [] q.action = "Choose" ->
           LET isRandom == q.chosen.type = "Random"
               v == IF isRandom THEN choose_random(ra.room, random)
                    ELSE choose(ra.room, q.chosen.index)
               chosen == IF isRandom THEN v.res.val ELSE q.chosen.index
           IN  IF v.res.kind = "Panic" THEN [Plan(c) EXCEPT !.exit = TRUE]
               ELSE [Held(c, r) EXCEPT
                       !.rooms = WithRoom(r, v.room),
                       !.out = publish(ra, FromResult(v.res,
                                   Resp("Chosen", [chosen |-> chosen,
                                                   random |-> isRandom])))]
      [] q.action = "Decide" ->
           LET v == decide(ra.room, q.decision)
           IN  [Held(c, r) EXCEPT
                  !.rooms = WithRoom(r, v.room),
                  !.out = publish(ra, FromResult(v.res,
                              Resp("Decided", [result |-> v.res.val])))]
      [] OTHER ->
           [Held(c, r) EXCEPT !.out = <<To(c, GameError("InvalidOperation"))>>]

\* The match of request_handler on (request, role).
Dispatch(c, q, random, ord) ==
    CASE q.action = "ListRooms" -> OnListRooms(c, q, ord)
      [] q.action = "EnterRoom" -> OnEnterRoom(c, q)
      [] q.action = "CreateRoom" -> OnCreateRoom(c, q)
      [] h[c].role.tag = "Host" -> OnHost(c, q, random)
      [] h[c].role.tag = "Contestant" -> OnContestant(c, q, random)
      [] OTHER -> [Plan(c) EXCEPT !.out = <<To(c, GameError("InvalidOperation"))>>]

\* The room ids whose lock the handling of q takes before its first await.
Needs(c, q) ==
    CASE q.action = "ListRooms" -> RoomIds
      [] q.action = "EnterRoom" ->
           IF h[c].role.tag = "Guest" THEN {q.id} ELSE {}
      [] q.action = "CreateRoom" ->
           IF h[c].role.tag = "Guest" THEN {next_room} \cup ({h[c].dropper} \ {0})
           ELSE {}
      [] h[c].role.tag \in {"Host", "Contestant"} -> {h[c].role.room_id}
      [] OTHER -> {}
Blocked(c, q) == \E r \in Needs(c, q) : ~CanLock(r)
\* The requests a handler can be handling when it waits for the lock of room
\* r: what the request is shows only when the handler goes on.
Waiting(c, r) == {q \in Requests : r \in Needs(c, q)}

\* The orders rooms.iter() can yield, when q iterates.
Orders(q) ==
    IF q.action # "ListRooms" THEN {<<>>}
    ELSE LET S == DOMAIN rooms
         IN  {f \in [1..Cardinality(S) -> S] :
                 \A i, j \in 1..Cardinality(S) : i # j => f[i] # f[j]}

\* The values gen_range(0..doors) can draw, when q asks for a random index.
RandomOf(c, q) ==
    IF /\ q.action \in {"Start", "Reveal", "Choose"}
       /\ h[c].role.tag \in {"Host", "Contestant"}
       /\ h[c].role.room_id \in DOMAIN rooms
    THEN Draws(rooms[h[c].role.room_id].room.settings.doors)
    ELSE {0}

\* What the clients of OwnerSpec send.
OwnerRequests ==
    {[action |-> "CreateRoom", settings |-> o] :
        o \in {None} \cup {Some(st) : st \in ClientSettings}}
    \cup {[action |-> "EnterRoom", id |-> r] : r \in 1..PlayRooms}
    \cup {[action |-> "ExitRoom", id |-> r] : r \in 1..PlayRooms}
    \cup {[action |-> "Close"]}
\* The clients of OwnerSpec: NumPlayers connections that open and close rooms.
Owners == [c \in Conns |-> IF c <= NumPlayers THEN OwnerRequests ELSE {}]
\* What the clients of ListSpec send: two create a room each, the second
\* and a third list the rooms, and the third enters the first room.  None of
\* them leaves or disconnects.
ListRequests == {q \in Requests : q.action = "ListRooms"}
ListHostRequests ==
    {[action |-> "CreateRoom", settings |-> Some(st)] : st \in ClientSettings}
Listers ==
    [c \in Conns |-> CASE c = 1 -> ListHostRequests
                       [] c = 2 -> ListHostRequests \cup ListRequests
                       [] OTHER -> ListRequests \cup {[action |-> "EnterRoom", id |-> 1]}]
\* The rooms the clients create: MaxRooms in OwnerSpec and ListSpec,
\* PlayRooms elsewhere.
RoomCap == IF clients \in {Owners, Listers} THEN MaxRooms ELSE PlayRooms

\* The client of c sends q.
\* ServerSpec follows a game up to current_round = ServerRoundCap: a Start
\* that would begin a later round is not sent, and neither is a CreateRoom
\* once RoomCap ids are in use.  Connections are interchangeable, so the
\* k-th room is created by one of the first k connections.
Sendable(c, q) ==
    /\ q \in clients[c]
    /\ q.action = "CreateRoom" => next_room <= RoomCap /\ c <= next_room
    /\ (/\ q.action = "Start" /\ h[c].role.tag = "Host"
        /\ h[c].role.room_id \in DOMAIN rooms) =>
          LET rm == rooms[h[c].role.room_id].room
          IN  ~(/\ rm.state.tag = "Started" /\ is_end(rm.state.stage)
                /\ rm.state.current_round >= ServerRoundCap
                /\ RoundLtLast(rm.state.current_round, rm.settings.rounds) = "T")

\* The entry of room r, as far as it is in the registry.
Entry(reg, r) == [x \in {r} \cap DOMAIN reg |-> reg[x]]

\* The handler takes up request q and runs to its first send.
Handle(c, q) ==
    \E random \in RandomOf(c, q), ord \in Orders(q) :
        LET p == Dispatch(c, q, random, ord)
        IN  /\ rooms' = p.rooms
            /\ next_room' = IF p.created THEN next_room + 1 ELSE next_room
            /\ h' = [h EXCEPT ![c] =
                  IF p.exit
                  THEN Returned(h[c])
                  ELSE [pc |-> "send", role |-> p.role, guard |-> p.guard,
                        out |-> p.out, wait |-> 0,
                        then_guest |-> p.then_guest, then_clear |-> p.then_clear,
                        then_remove |-> p.then_remove, dropper |-> p.dropper,
                        answer |-> IF \E i \in 1..Len(p.out) :
                                        /\ p.out[i].to = c
                                        /\ p.out[i].msg.resp = "GameError"
                                   THEN "GameError" ELSE "other",
                        pre |-> Entry(rooms, p.guard),
                        view |-> Entry(p.rooms, p.guard)]]
            /\ UNCHANGED <<resp, ws, overflow_checks, clients, pending, rvars>>

\* while let Some(request) = receiver.recv().await: a request the websocket
\* loop decoded arrives, and no other handler holds a lock it needs.
HRecv(c) ==
    /\ h[c].pc = "recv"
    /\ ws[c]
    /\ \E q \in Requests :
          /\ Sendable(c, q)
          /\ ~Blocked(c, q)
          /\ Handle(c, q)
    /\ UNCHANGED req

\* A request arrives that needs a lock another handler holds: the handler
\* waits in the map.
HBlock(c) ==
    /\ h[c].pc = "recv"
    /\ ws[c]
    /\ \E r \in RoomIds :
          /\ ~CanLock(r)
          /\ \E q \in Waiting(c, r) : Sendable(c, q)
          /\ h' = [h EXCEPT ![c].pc = "blocked", ![c].wait = r]
    /\ UNCHANGED <<rooms, next_room, resp, ws, overflow_checks, clients, qvars, rvars>>

\* The lock the handler waited for is free: it goes on with its request.
HUnblock(c) ==
    /\ h[c].pc = "blocked"
    /\ \E q \in Waiting(c, h[c].wait) :
          /\ Sendable(c, q)
          /\ ~Blocked(c, q)
          /\ Handle(c, q)
    /\ UNCHANGED req

\* receiver.recv() yields the first request of the channel, and no other
\* handler holds a lock it needs.
HRecvQueued(c) ==
    /\ h[c].pc = "recv"
    /\ req[c] # <<>>
    /\ ~Blocked(c, Head(req[c]))
    /\ Handle(c, Head(req[c]))
    /\ req' = [req EXCEPT ![c] = Tail(@)]

\* The request received needs a lock another handler holds: the handler
\* waits in the map with it (it stays the head of req[c], out of the channel).
HBlockQueued(c) ==
    /\ h[c].pc = "recv"
    /\ req[c] # <<>>
    /\ \E r \in Needs(c, Head(req[c])) :
          /\ ~CanLock(r)
          /\ h' = [h EXCEPT ![c].pc = "blocked", ![c].wait = r]
    /\ UNCHANGED <<rooms, next_room, resp, ws, overflow_checks, clients, qvars, rvars>>

\* The locks the handler waited for are free: it goes on with its request.
HUnblockQueued(c) ==
    /\ h[c].pc = "blocked"
    /\ req[c] # <<>>
    /\ ~Blocked(c, Head(req[c]))
    /\ Handle(c, Head(req[c]))
    /\ req' = [req EXCEPT ![c] = Tail(@)]

\* Sender::send(..).await with `?`: fails when the receiver is gone, waits
\* while the channel is full.  After the last send the handler does what is
\* left of the arm and drops its RefMut.
HSend(c) ==
    /\ h[c].pc = "send"
    /\ LET s == Head(h[c].out)
           g == h[c].guard
       IN  IF ~ws[s.to]
           THEN /\ h' = [h EXCEPT ![c] = Returned(h[c])]
                /\ UNCHANGED <<rooms, resp>>
           ELSE /\ Len(resp[s.to]) < RespCap
                /\ resp' = [resp EXCEPT ![s.to] =
                               Append(@, [resp |-> s.msg.resp, val |-> s.msg.val,
                                          by |-> c])]
                /\ IF Len(h[c].out) > 1
                   THEN /\ h' = [h EXCEPT ![c].out = Tail(@)]
                        /\ UNCHANGED rooms
                   ELSE /\ rooms' = IF h[c].then_clear /\ g \in DOMAIN rooms
                                    THEN [rooms EXCEPT ![g].contestant = 0]
                                    ELSE rooms
                        /\ h' = [h EXCEPT ![c] =
                              [Idle(IF h[c].then_guest THEN Guest ELSE h[c].role,
                                    h[c].dropper)
                                 EXCEPT !.pc = IF h[c].then_remove # 0 THEN "remove"
                                               ELSE "recv",
                                        !.then_remove = h[c].then_remove]]
    /\ UNCHANGED <<ws, next_room, overflow_checks, clients, qvars, rvars>>

\* The end of the Host arm without the deferred remove.
HRemove_Keep(c) ==
    /\ h[c].pc = "remove"
    /\ h' = [h EXCEPT ![c].pc = "recv", ![c].then_remove = 0]
    /\ UNCHANGED <<rooms, resp, ws, next_room, overflow_checks, clients, qvars, rvars>>

\* if remove { server.rooms.remove(&room_id); }
HRemove(c) ==
    /\ h[c].pc = "remove"
    /\ CanLock(h[c].then_remove)
    /\ rooms' = Remove(rooms, h[c].then_remove)
    /\ h' = [h EXCEPT ![c].pc = "recv", ![c].then_remove = 0]
    /\ UNCHANGED <<resp, ws, next_room, overflow_checks, clients, qvars, rvars>>

\* receiver.recv() gives None: the websocket loop has dropped the request
\* sender. The handler leaves its loop and returns.
HExit(c) ==
    /\ h[c].pc = "recv"
    /\ ~ws[c]
    /\ req[c] = <<>>
    /\ h' = [h EXCEPT ![c] = Returned(h[c])]
    /\ UNCHANGED <<rooms, resp, ws, next_room, overflow_checks, clients, qvars, rvars>>

\* impl Drop for RoomDropper
HDrop(c) ==
    /\ h[c].pc = "drop"
    /\ CanLock(h[c].dropper)
    /\ rooms' = Remove(rooms, h[c].dropper)
    /\ h' = [h EXCEPT ![c].pc = "done", ![c].dropper = 0]
    /\ UNCHANGED <<resp, ws, next_room, overflow_checks, clients, qvars, rvars>>

\* websocket_loop: resp_receiver.recv() yields a response, sent to the socket.
WsDeliver(c) ==
    /\ ws[c]
    /\ pending[c] = <<>>
    /\ resp[c] # <<>>
    /\ resp' = [resp EXCEPT ![c] = Tail(@)]
    /\ UNCHANGED <<rooms, h, ws, next_room, overflow_checks, clients, qvars, rvars>>

\* Message::Close, as one of the things a client sends.
Close == [action |-> "Close"]

\* websocket_loop ends: the client closed (or the socket or the decoding
\* failed), or the request channel is closed because the handler has
\* returned. Its request sender and response receiver are dropped, and with
\* the receiver the responses still queued.
WsClose(c) ==
    /\ ws[c]
    /\ pending[c] = <<>>
    /\ Close \in clients[c] \/ h[c].pc \in {"drop", "done"}
    /\ ws' = [ws EXCEPT ![c] = FALSE]
    /\ resp' = [resp EXCEPT ![c] = <<>>]
    /\ UNCHANGED <<rooms, h, next_room, overflow_checks, clients, qvars, rvars>>

\* websocket_loop: socket.recv() yields a Text message that decodes to a
\* request; the loop goes to req_sender.send(request).await.
WsRequest(c) ==
    /\ ws[c]
    /\ pending[c] = <<>>
    /\ \E q \in Requests :
          /\ Sendable(c, q)
          /\ q.action = "CreateRoom" =>
                \A i \in 1..Len(req[c]) : req[c][i].action # "CreateRoom"
          /\ pending' = [pending EXCEPT ![c] = <<q>>]
    /\ UNCHANGED <<rooms, h, resp, ws, next_room, req, overflow_checks, clients, rvars>>

\* The request channel of c has room: the request a handler waits for a
\* lock with has left the channel.
ReqRoom(c) == Len(req[c]) - (IF h[c].pc = "blocked" THEN 1 ELSE 0) < ReqCap

\* req_sender.send(request).await.map_err(send_error)?: waits while the
\* channel is full, fails when the handler has dropped the receiver, and the
\* loop returns to its select! only afterwards.
WsEnqueue(c) ==
    /\ ws[c]
    /\ pending[c] # <<>>
    /\ IF h[c].pc \in {"drop", "done"}
       THEN /\ ws' = [ws EXCEPT ![c] = FALSE]
            /\ resp' = [resp EXCEPT ![c] = <<>>]
            /\ req' = [req EXCEPT ![c] = <<>>]
       ELSE /\ ReqRoom(c)
            /\ req' = [req EXCEPT ![c] = Append(@, Head(pending[c]))]
            /\ UNCHANGED <<ws, resp>>
    /\ pending' = [pending EXCEPT ![c] = <<>>]
    /\ UNCHANGED <<rooms, h, next_room, overflow_checks, clients, rvars>>

\* What the clients of ServerSpec send: every request but a CreateRoom
\* without settings.
PlayerRequests ==
    {q \in Requests :
        /\ q.action = "CreateRoom" =>
              q.settings.some /\ q.settings.settings \in ClientSettings
        /\ q.action = "UpdateSettings" => q.settings \in ClientSettings
        /\ q.action \in {"EnterRoom", "ExitRoom"} => q.id <= PlayRooms}
    \cup {Close}
\* What the clients of LobbySpec send.
LobbyRequests ==
    {q \in PlayerRequests :
        q.action \in {"CreateRoom", "EnterRoom", "ExitRoom", "Close"}}
\* What the clients of SettingsSpec send: the room is created with the
\* server's default settings, so that UpdateSettings changes them.
SettingsRequests ==
    {q \in Requests \cup {Close} :
        \/ q.action \in {"Ready", "UpdateSettings", "Complete", "Close"}
        \/ q.action \in {"EnterRoom", "ExitRoom"} /\ q.id <= PlayRooms
        \/ q = [action |-> "CreateRoom", settings |-> None]}

\* ws_handler has set up the connections whose clients send anything: the
\* User is a Guest, UserCreated is in its response channel, its handler and
\* websocket loop run.  The other connections have come and gone.
ServerStart ==
    /\ rooms = <<>>
    /\ h = [c \in Conns |-> IF clients[c] # {} THEN Idle(Guest, 0)
                           ELSE [Idle(Guest, 0) EXCEPT !.pc = "done"]]
    /\ resp = [c \in Conns |-> IF clients[c] # {}
                              THEN <<[resp |-> "UserCreated", val |-> c, by |-> c]>>
                              ELSE <<>>]
    /\ ws = [c \in Conns |-> clients[c] # {}]
    /\ next_room = 1
    /\ req = [c \in Conns |-> <<>>]
    /\ pending = [c \in Conns |-> <<>>]

\* What the clients of QueueSpec send.
QueueRequests == LobbyRequests

\* The clients of ServerSpec: NumPlayers connections that send every request.
Players == [c \in Conns |-> IF c <= NumPlayers THEN PlayerRequests ELSE {}]
\* The clients of LobbySpec: every connection creates, enters and leaves.
Visitors == [c \in Conns |-> LobbyRequests]
\* The clients of QueueSpec: NumPlayers connections that send at will.
Senders == [c \in Conns |-> IF c <= NumPlayers THEN QueueRequests ELSE {}]
\* The clients of SettingsSpec: NumPlayers connections that set a room up.
Hosts == [c \in Conns |-> IF c <= NumPlayers THEN SettingsRequests ELSE {}]

\* What the clients of KickSpec send: a host that plays one game and kicks
\* the contestant at its end, the contestant of that game, and a newcomer.
\* None of them leaves or disconnects.
KickHostRequests ==
    {[action |-> "CreateRoom", settings |-> Some(st)] : st \in ClientSettings}
    \cup {[action |-> "Start", prize |-> Specified(0)],
          [action |-> "Reveal", left |-> Random],
          [action |-> "Complete", kick_contestant |-> TRUE]}
KickContestantRequests ==
    {[action |-> "EnterRoom", id |-> 1],
     [action |-> "Ready", ready |-> TRUE],
     [action |-> "Choose", chosen |-> Specified(0)],
     [action |-> "Decide", decision |-> "Stick"]}
KickNewcomerRequests == {[action |-> "EnterRoom", id |-> 1]}
Kickers ==
    [c \in Conns |-> CASE c = 1 -> KickHostRequests
                       [] c = 2 -> KickContestantRequests
                       [] OTHER -> KickNewcomerRequests]

\* What the clients of DoorlessSpec send: a host whose room has no door, and
\* a contestant.
DoorlessHostRequests ==
    {[action |-> "CreateRoom", settings |-> Some(st)] : st \in EmptySettings}
    \cup {[action |-> "Start", prize |-> i] : i \in IndexArgs}
    \cup {[action |-> "ExitRoom", id |-> 1], Close}
DoorlessContestantRequests ==
    {[action |-> "EnterRoom", id |-> 1],
     [action |-> "Ready", ready |-> TRUE],
     [action |-> "Choose", chosen |-> Random],
     Close}
Doorless ==
    [c \in Conns |-> CASE c = 1 -> DoorlessHostRequests
                       [] c = 2 -> DoorlessContestantRequests
                       [] OTHER -> {}]

\* ------------------------------------------------------------ Spec: a Room
NoCall == [op |-> "create", arg |-> Unit, res |-> Ok(Unit), pre |-> Created]

Init ==
    /\ overflow_checks \in BOOLEAN
    /\ \E s \in SettingsSet : room = create(s)
    /\ last = NoCall
    /\ clients = Players
    /\ ServerStart

\* A call of a Room method: the room becomes the method's room, and `last`
\* records the call, its result and the state it was made in (pre).
Call(op, arg, out) ==
    /\ room' = out.room
    /\ last' = [op |-> op, arg |-> arg, res |-> out.res, pre |-> room.state]
    /\ UNCHANGED <<overflow_checks, svars>>

\* The model follows a game for at most RoundCap + 1 rounds.
WithinCap == ~(room.state.tag = "Started" /\ is_end(room.state.stage)
                 /\ room.state.current_round >= RoundCap)

AcceptContestant ==
    \E c \in ContestantIds : Call("accept_contestant", c, accept_contestant(room, c))

KickContestant == Call("kick_contestant", Unit, kick_contestant(room))

ContestantReady ==
    \E b \in BOOLEAN : Call("contestant_ready", b, contestant_ready(room, b))

UpdateSettings ==
    \E s \in SettingsSet : Call("update_settings", s, update_settings(room, s))

StartRandom ==
    /\ WithinCap
    /\ \E x \in Draws(room.settings.doors) :
          Call("start_random", Unit, start_random(room, x))

Start ==
    /\ WithinCap
    /\ \E i \in Indexes : Call("start", i, start(room, i))

ChooseRandom ==
    \E x \in Draws(room.settings.doors) :
        Call("choose_random", Unit, choose_random(room, x))

Choose == \E i \in Indexes : Call("choose", i, choose(room, i))

RevealRandom ==
    \E x \in Draws(room.settings.doors) :
        Call("reveal_random", Unit, reveal_random(room, x))

Reveal == \E i \in Indexes : Call("reveal", i, reveal(room, i))

Decide == \E d \in Decisions : Call("decide", d, decide(room, d))

Complete == \E k \in BOOLEAN : Call("complete", k, complete(room, k))

Next ==
    \/ AcceptContestant
    \/ KickContestant
    \/ ContestantReady
    \/ UpdateSettings
    \/ StartRandom
    \/ Start
    \/ ChooseRandom
    \/ Choose
    \/ RevealRandom
    \/ Reveal
    \/ Decide
    \/ Complete

Spec == Init /\ [][Next]_vars

\* ------------------------------------------------------ ServerSpec: the server
\* No Settings in ServerSpec has rounds = 0, so the two builds agree.
ServerInit ==
    /\ overflow_checks = FALSE
    /\ room = create(default_settings)
    /\ last = NoCall
    /\ clients = Players
    /\ ServerStart

ServerNext ==
    \E c \in Conns :
        \/ HRecv(c)
        \/ HBlock(c)
        \/ HUnblock(c)
        \/ HSend(c)
        \/ HRemove(c)
        \/ HExit(c)
        \/ HDrop(c)
        \/ WsDeliver(c)
        \/ WsClose(c)

ServerSpec == ServerInit /\ [][ServerNext]_vars

\* ---------------------------------------- LobbySpec: the server's lobby
\* Every connection is up, and the clients create, enter and leave rooms.
LobbyInit ==
    /\ overflow_checks = FALSE
    /\ room = create(default_settings)
    /\ last = NoCall
    /\ clients = Visitors
    /\ ServerStart

LobbySpec == LobbyInit /\ [][ServerNext]_vars

\* ---------------------------------- SettingsSpec: the settings of a room
SettingsInit ==
    /\ overflow_checks = FALSE
    /\ room = create(default_settings)
    /\ last = NoCall
    /\ clients = Hosts
    /\ ServerStart

SettingsSpec == SettingsInit /\ [][ServerNext]_vars

\* ------------------------------ QueueSpec: the channels of a connection
\* The websocket loop puts the requests into the request channel, of ReqCap
\* places, and the handler takes them from it.
QueueInit ==
    /\ overflow_checks = FALSE
    /\ room = create(default_settings)
    /\ last = NoCall
    /\ clients = Senders
    /\ ServerStart

QueueNext ==
    \E c \in Conns :
        \/ WsRequest(c)
        \/ WsEnqueue(c)
        \/ HRecvQueued(c)
        \/ HBlockQueued(c)
        \/ HUnblockQueued(c)
        \/ HSend(c)
        \/ HRemove(c)
        \/ HExit(c)
        \/ HDrop(c)
        \/ WsDeliver(c)
        \/ WsClose(c)

QueueSpec == QueueInit /\ [][QueueNext]_vars

\* ------------------------------------ OwnerSpec: hosts and their rooms
\* The clients create rooms, leave them and disconnect.
OwnerInit ==
    /\ overflow_checks = FALSE
    /\ room = create(default_settings)
    /\ last = NoCall
    /\ clients = Owners
    /\ ServerStart

OwnerSpec == OwnerInit /\ [][ServerNext]_vars

\* ------------------------------- KickSpec: a game that ends with a kick
\* Three connections: the host, its contestant, and one that enters later.
\* They stay connected, so no handler returns and no room is removed.
KickInit ==
    /\ overflow_checks = FALSE
    /\ room = create(default_settings)
    /\ last = NoCall
    /\ clients = Kickers
    /\ ServerStart

StayNext ==
    \E c \in Conns :
        \/ HRecv(c)
        \/ HBlock(c)
        \/ HUnblock(c)
        \/ HSend(c)
        \/ WsDeliver(c)

KickSpec == KickInit /\ [][StayNext]_vars

\* --------------------------------------- ListSpec: listing the registry
\* Up to NumConns rooms, listed while they are created and entered.
ListInit ==
    /\ overflow_checks = FALSE
    /\ room = create(default_settings)
    /\ last = NoCall
    /\ clients = Listers
    /\ ServerStart

ListSpec == ListInit /\ [][StayNext]_vars

\* -------------------------------------- DoorlessSpec: a room of no doors
DoorlessInit ==
    /\ overflow_checks = FALSE
    /\ room = create(default_settings)
    /\ last = NoCall
    /\ clients = Doorless
    /\ ServerStart

DoorlessSpec == DoorlessInit /\ [][ServerNext]_vars

\* ----------------------- DemoSpec: the Room of room.rs, used by main.rs
\* room.rs has its own Room: its Started state counts the rounds won (`win`)
\* where that of lib.rs keeps the results.  `room` holds this Room here.
DemoStarted(c, cr, p, w, st) ==
    [tag |-> "Started", contestant |-> c, current_round |-> cr, prize |-> p,
     win |-> w, stage |-> st]

\* The methods of room.rs whose text is that of lib.rs.
room_create(settings) == create(settings)
room_accept_contestant(r, contestant) == accept_contestant(r, contestant)
room_contestant_ready(r, ready) == contestant_ready(r, ready)
room_choose_random(r, random) == choose_random(r, random)
room_choose(r, chosen) == choose(r, chosen)
room_reveal_random(r, random) == reveal_random(r, random)
room_reveal(r, left) == reveal(r, left)

\* room.rs update_settings: in Joined it always resets `ready` and returns
\* what `ready` was.
room_update_settings(r, settings) ==
    CASE r.state.tag = "Created" ->
           Ret([r EXCEPT !.settings = settings], Ok(FALSE))
      [] r.state.tag = "Joined" ->
           Ret([settings |-> settings,
                state |-> [r.state EXCEPT !.ready = FALSE]], Ok(r.state.ready))
      [] OTHER -> Ret(r, Err("InvalidOperation"))

\* room.rs start_random: the second arm does not bind the state's prize (`..`)
\* and stores the door it draws.
room_start_random(r, random) ==
    CASE r.state.tag = "Joined" /\ r.state.ready ->
           IF r.settings.doors = 0
           THEN Ret(r, Panic("cannot sample empty range"))
           ELSE Ret(WithState(r, DemoStarted(r.state.contestant, 0, random, 0,
                                             StageChoose)),
                    Ok(random))
      [] r.state.tag = "Started" /\ is_end(r.state.stage) ->
           LET lt == RoundLtLast(r.state.current_round, r.settings.rounds)
           IN  CASE lt = "Panic" -> Ret(r, Panic("attempt to subtract with overflow"))
                 [] lt = "T" ->
                      IF r.settings.doors = 0
                      THEN Ret(r, Panic("cannot sample empty range"))
                      ELSE Ret(WithState(r, DemoStarted(r.state.contestant,
                                                r.state.current_round + 1, random,
                                                r.state.win, StageChoose)),
                               Ok(random))
                 [] OTHER -> Ret(r, Err("InvalidOperation"))
      [] OTHER -> Ret(r, Err("InvalidOperation"))

\* room.rs start: the pattern of the second arm binds the state's fields
\* contestant, current_round, prize and win, so that in this arm `prize` is
\* the prize of the round that ended, not the argument.
room_start(r, prize) ==
    IF prize >= r.settings.doors
    THEN Ret(r, Err("InvalidDoorIndex"))
    ELSE
    CASE r.state.tag = "Joined" /\ r.state.ready ->
           Ret(WithState(r, DemoStarted(r.state.contestant, 0, prize, 0, StageChoose)),
               Ok(Unit))
      [] r.state.tag = "Started" /\ is_end(r.state.stage) ->
           LET lt == RoundLtLast(r.state.current_round, r.settings.rounds)
           IN  CASE lt = "Panic" -> Ret(r, Panic("attempt to subtract with overflow"))
                 [] lt = "T" ->
                      Ret(WithState(r, DemoStarted(r.state.contestant,
                                           r.state.current_round + 1, r.state.prize,
                                           r.state.win, StageChoose)),
                          Ok(Unit))
                 [] OTHER -> Ret(r, Err("InvalidOperation"))
      [] OTHER -> Ret(r, Err("InvalidOperation"))

\* room.rs decide: counts the win and ends the round.
room_decide(r, decision) ==
    IF r.state.tag = "Started" /\ r.state.stage.tag = "Decide"
    THEN LET chosen == r.state.stage.chosen
             left == r.state.stage.left
             win_the_prize_ == win_the_prize(chosen, left, decision, r.state.prize)
             result == RoundResult(r.state.prize, chosen, left, decision,
                                   win_the_prize_)
         IN  Ret(WithState(r, DemoStarted(r.state.contestant, r.state.current_round,
                                  r.state.prize,
                                  IF win_the_prize_ THEN r.state.win + 1
                                  ELSE r.state.win,
                                  StageEnd(result))),
                 Ok(result))
    ELSE Ret(r, Err("InvalidOperation"))

DemoInit ==
    /\ overflow_checks \in BOOLEAN
    /\ \E s \in SettingsSet : room = room_create(s)
    /\ last = NoCall
    /\ clients = Players
    /\ ServerStart

DemoAcceptContestant ==
    \E c \in ContestantIds :
        Call("accept_contestant", c, room_accept_contestant(room, c))

DemoContestantReady ==
    \E b \in BOOLEAN : Call("contestant_ready", b, room_contestant_ready(room, b))

DemoUpdateSettings ==
    \E s \in SettingsSet : Call("update_settings", s, room_update_settings(room, s))

DemoStartRandom ==
    /\ WithinCap
    /\ \E x \in Draws(room.settings.doors) :
          Call("start_random", Unit, room_start_random(room, x))

DemoStart ==
    /\ WithinCap
    /\ \E i \in Indexes : Call("start", i, room_start(room, i))

DemoChooseRandom ==
    \E x \in Draws(room.settings.doors) :
        Call("choose_random", Unit, room_choose_random(room, x))

DemoChoose == \E i \in Indexes : Call("choose", i, room_choose(room, i))

DemoRevealRandom ==
    \E x \in Draws(room.settings.doors) :
        Call("reveal_random", Unit, room_reveal_random(room, x))

DemoReveal == \E i \in Indexes : Call("reveal", i, room_reveal(room, i))

DemoDecide == \E d \in Decisions : Call("decide", d, room_decide(room, d))

DemoNext ==
    \/ DemoAcceptContestant
    \/ DemoContestantReady
    \/ DemoUpdateSettings
    \/ DemoStartRandom
    \/ DemoStart
    \/ DemoChooseRandom
    \/ DemoChoose
    \/ DemoRevealRandom
    \/ DemoReveal
    \/ DemoDecide

DemoSpec == DemoInit /\ [][DemoNext]_vars

\* The scheduling of the tasks: a task that can run does; a handler waiting
\* for the map's lock or for room in a channel gets it if it is free again
\* and again (tokio's channel serves its senders in order).
ServerFair ==
    \A c \in Conns :
        /\ WF_vars(HExit(c)) /\ WF_vars(WsDeliver(c))
        /\ SF_vars(HSend(c)) /\ SF_vars(HUnblock(c))
        /\ SF_vars(HRemove(c)) /\ SF_vars(HDrop(c))
ServerLive == ServerSpec /\ ServerFair

\* ====================================================== claims on the Room
\* What the claims read off the last call of Spec.
IsOk == last.res.kind = "Ok"
IsErr(e) == last.res.kind = "Err" /\ last.res.val = e
Failed == last.res.kind = "Err"
PreStage == IF last.pre.tag = "Started" THEN last.pre.stage.tag ELSE "None"
PostStage == IF room.state.tag = "Started" THEN room.state.stage.tag ELSE "None"
StageRank(tag) ==
    CASE tag = "Choose" -> 0 [] tag = "Reveal" -> 1 [] tag = "Decide" -> 2
      [] tag = "End" -> 3 [] OTHER -> -1
StageOps == {"choose", "choose_random", "reveal", "reveal_random", "decide"}
StartOps == {"start", "start_random"}
\* The stage an operation is legal in, and the stage it leads to.
StageOf(op) ==
    CASE op \in {"choose", "choose_random"} -> "Choose"
      [] op \in {"reveal", "reveal_random"} -> "Reveal"
      [] OTHER -> "Decide"
StageAfter(op) ==
    CASE op \in {"choose", "choose_random"} -> "Reveal"
      [] op \in {"reveal", "reveal_random"} -> "Decide"
      [] OTHER -> "End"
\* The last call passed an explicit door index that is not a door.
OutOfRange ==
    /\ last.op \in {"start", "choose", "reveal"}
    /\ last.arg >= room.settings.doors

\* C1, with the error of an illegal call either fixed to InvalidOperation
\* (strict) or InvalidDoorIndex when the explicit index is >= doors.
C1_Body(strict) ==
    /\ (last.op \in StageOps /\ IsOk) =>
          /\ PreStage = StageOf(last.op)
          /\ PostStage = StageAfter(last.op)
    /\ (last.op \in StageOps /\ PreStage # StageOf(last.op)) =>
          /\ Failed
          /\ last.res.val = (IF OutOfRange /\ ~strict THEN "InvalidDoorIndex"
                             ELSE "InvalidOperation")
          /\ room.state = last.pre
    /\ (last.pre.tag = "Started" /\ room.state.tag = "Started") =>
          \/ StageRank(PostStage) >= StageRank(PreStage)
          \/ /\ last.op \in StartOps /\ IsOk
             /\ PreStage = "End" /\ PostStage = "Choose"
             /\ room.state.current_round = last.pre.current_round + 1
    /\ (PostStage = "Choose" /\ PreStage # "Choose") =>
          (last.op \in StartOps /\ IsOk)

\* C1 (as amended): within a round the stage only advances Choose -> Reveal
\* -> Decide -> End. choose/choose_random succeed only in stage Choose,
\* reveal/reveal_random only in Reveal, decide only in Decide; in any other
\* stage, or when the room is not Started, the call fails and leaves the room
\* as it was - with InvalidOperation, or with InvalidDoorIndex when choose or
\* reveal is given an explicit index >= doors. No call moves the stage
\* backwards, and the stage becomes Choose again only by a successful start.
C1_StageOrder == C1_Body(FALSE)

\* C1 as stated: every such illegal call fails with InvalidOperation (stated
\* for rooms of at least two doors and one round).
C1_Original ==
    (room.settings.doors >= 2 /\ room.settings.rounds >= 1) => C1_Body(TRUE)

\* choose called in stage Decide of a second round was rejected.
C1_Witness ==
    /\ last.op = "choose" /\ PreStage = "Decide" /\ IsErr("InvalidOperation")
    /\ room.state.current_round = 1
    /\ room.settings = [doors |-> 2, rounds |-> 2]

\* The rule a left door must satisfy for the stage Reveal{chosen} and prize.
RevealRule(chosen, left, prize) ==
    /\ left # chosen
    /\ (chosen = prize => left # prize)
    /\ (chosen # prize => left = prize)

C2_Body(strict) ==
    /\ (last.op \in {"reveal", "reveal_random"} /\ IsOk) =>
          /\ PostStage = "Decide"
          /\ room.state.stage.chosen = last.pre.stage.chosen
          /\ RevealRule(room.state.stage.chosen, room.state.stage.left,
                        room.state.prize)
          /\ (last.op = "reveal" => room.state.stage.left = last.arg)
          /\ (last.op = "reveal_random" => room.state.stage.left = last.res.val)
    /\ (/\ last.op = "reveal" /\ PreStage = "Reveal"
        /\ ~RevealRule(last.pre.stage.chosen, last.arg, last.pre.prize)) =>
          /\ Failed
          /\ last.res.val = (IF OutOfRange /\ ~strict THEN "InvalidDoorIndex"
                             ELSE "InvalidOperation")
          /\ room.state = last.pre

\* C2 (as amended): after any successful reveal or reveal_random the stage is
\* Decide{chosen, left} with left # chosen, left # prize if chosen = prize,
\* and left = prize if chosen # prize. A host-supplied index that breaks this
\* rule is rejected and the stage stays Reveal - with InvalidOperation when
\* the index is a door, with InvalidDoorIndex when it is >= doors.
C2_RevealRule == C2_Body(FALSE)

\* C2 as stated: every rule-breaking index is rejected with InvalidOperation
\* (stated for rooms of at least two doors and one round).
C2_Original ==
    (room.settings.doors >= 2 /\ room.settings.rounds >= 1) => C2_Body(TRUE)

\* The host left a door other than the chosen prize door, with three doors.
C2_Witness ==
    /\ last.op = "reveal" /\ IsOk /\ room.settings = [doors |-> 3, rounds |-> 1]
    /\ room.state.stage.chosen = room.state.prize
    /\ room.state.stage.left # room.state.prize

\* C3: decide(decision) in stage Decide{chosen, left} with prize p returns
\* the RoundResult (p, chosen, left, decision, win) where win is (Stick and
\* chosen = p) or (Switch and left = p), and the stage becomes End{result};
\* in every reachable Decide stage exactly one of Stick, Switch would win.
C3_DecideResult ==
    /\ (last.op = "decide" /\ PreStage = "Decide") =>
          LET d == last.pre.stage
              p == last.pre.prize
              win == \/ last.arg = "Stick" /\ d.chosen = p
                     \/ last.arg = "Switch" /\ d.left = p
          IN  /\ IsOk
              /\ last.res.val = [prize |-> p, chosen |-> d.chosen, left |-> d.left,
                                 decision |-> last.arg, win |-> win]
              /\ room.state.stage = [tag |-> "End", result |-> last.res.val]
    /\ PostStage = "Decide" =>
          LET d == room.state.stage
          IN  /\ decide(room, "Stick").res.val.win # decide(room, "Switch").res.val.win
              /\ (d.chosen = room.state.prize) # (d.left = room.state.prize)

\* A contestant switched to the prize door and won.
C3_Witness ==
    /\ room.settings = [doors |-> 3, rounds |-> 1]
    /\ last.op = "decide" /\ IsOk /\ last.arg = "Switch"
    /\ last.res.val.win /\ last.res.val.left = last.res.val.prize

\* The first state of a game: what start makes of Joined{ready: true}.
IsFirstRound(st) ==
    /\ st.tag = "Started" /\ st.current_round = 0
    /\ st.results = <<>> /\ st.stage = [tag |-> "Choose"]

\* C4: start / start_random succeed only (a) from Joined with ready = true,
\* giving Started with current_round = 0, no results and stage Choose, or
\* (b) from Started with stage End and current_round < rounds - 1, giving
\* current_round + 1 and stage Choose; so current_round never exceeds
\* rounds - 1.
C4_Claim ==
    /\ (last.op \in StartOps /\ IsOk) =>
          \/ /\ last.pre.tag = "Joined" /\ last.pre.ready
             /\ IsFirstRound(room.state)
             /\ room.state.contestant = last.pre.contestant
          \/ /\ PreStage = "End"
             /\ last.pre.current_round < room.settings.rounds - 1
             /\ room.state.current_round = last.pre.current_round + 1
             /\ room.state.results = last.pre.results
             /\ PostStage = "Choose"
    /\ room.state.tag = "Started" =>
          room.state.current_round <= room.settings.rounds - 1

\* C5: complete(kick_contestant) succeeds only when the room is Started with
\* stage End and current_round = rounds - 1, and then leaves Joined{same
\* contestant, ready: false}, or Created when kick_contestant; in every other
\* state it fails with InvalidOperation.
C5_Claim ==
    last.op = "complete" =>
        IF PreStage = "End" /\ last.pre.current_round = room.settings.rounds - 1
        THEN IsOk =>
               room.state = (IF last.arg THEN [tag |-> "Created"]
                             ELSE [tag |-> "Joined",
                                   contestant |-> last.pre.contestant,
                                   ready |-> FALSE])
        ELSE IsErr("InvalidOperation") /\ room.state = last.pre

\* C4 and C5 restricted to rooms whose rounds is at least 1: both hold there.
C4_ForValidRounds == room.settings.rounds >= 1 => C4_Claim
C5_ForValidRounds == room.settings.rounds >= 1 => C5_Claim

\* The settings a game is meant to be played under.
ValidSettings == room.settings.doors >= 2 /\ room.settings.rounds >= 1

\* The last call was the step the play sequence start, choose, reveal,
\* decide, ..., complete asks for in the state it was made in, with a random
\* index or a valid explicit one.
PlayStep ==
    \/ /\ last.op \in StartOps /\ ~OutOfRange
       /\ \/ last.pre.tag = "Joined" /\ last.pre.ready
          \/ /\ PreStage = "End"
             /\ last.pre.current_round < room.settings.rounds - 1
    \/ last.op \in {"choose", "choose_random"} /\ ~OutOfRange /\ PreStage = "Choose"
    \/ last.op = "reveal_random" /\ PreStage = "Reveal"
    \/ /\ last.op = "reveal" /\ ~OutOfRange /\ PreStage = "Reveal"
       /\ RevealRule(last.pre.stage.chosen, last.arg, last.pre.prize)
    \/ last.op = "decide" /\ PreStage = "Decide"
    \/ /\ last.op = "complete" /\ PreStage = "End"
       /\ last.pre.current_round = room.settings.rounds - 1

\* C6: with doors >= 2 and rounds >= 1, no step of the play sequence start,
\* choose, reveal, decide (repeated rounds times) fails, and the complete
\* that follows succeeds and returns exactly `rounds` results, in play order,
\* each the value decide returned: decide appends its result and no other
\* call changes the results of a game in progress.
C6_PlayThrough ==
    ValidSettings =>
        /\ PlayStep => IsOk
        /\ (last.op = "decide" /\ IsOk) =>
              room.state.results = Append(last.pre.results, last.res.val)
        /\ (/\ last.pre.tag = "Started" /\ room.state.tag = "Started"
            /\ ~(last.op = "decide" /\ IsOk)) =>
              room.state.results = last.pre.results
        /\ room.state.tag = "Started" =>
              Len(room.state.results) =
                 room.state.current_round + (IF PostStage = "End" THEN 1 ELSE 0)
        /\ (last.op = "complete" /\ IsOk) =>
              /\ last.res.val = last.pre.results
              /\ Len(last.res.val) = room.settings.rounds

\* A game of two rounds was completed, the two rounds decided differently.
C6_Witness ==
    /\ last.op = "complete" /\ IsOk /\ ValidSettings
    /\ Len(last.res.val) = 2
    /\ last.res.val[1].decision # last.res.val[2].decision

\* The door indexes a room state holds.
HeldIndexes(st) ==
    IF st.tag # "Started" THEN {}
    ELSE {st.prize}
         \cup (IF st.stage.tag \in {"Reveal", "Decide"} THEN {st.stage.chosen} ELSE {})
         \cup (IF st.stage.tag = "Decide" THEN {st.stage.left} ELSE {})
         \cup UNION {{st.results[i].prize, st.results[i].chosen, st.results[i].left} :
                       i \in 1..Len(st.results)}

\* C7: with doors >= 2 (and rounds >= 1), every door index the room holds
\* (prize, chosen, left, and those of every recorded RoundResult) lies in
\* [0, doors).
C7_Claim ==
    (room.settings.doors >= 2 /\ room.settings.rounds >= 1) =>
        \A i \in HeldIndexes(room.state) : 0 <= i /\ i < room.settings.doors

\* ------------------------------------------------------ claims on the server
\* The handlers that hold the RefMut of room r.
Holders(r) == {c \in Conns : h[c].guard = r}

\* C8: for every room id at most one request handler at a time holds mutable
\* access to the room's registry entry, and while a handler holds it the
\* entry is as that handler left it: no other handler's command, removal or
\* insertion comes between its get_mut and the drop of its RefMut, so the
\* commands on a room take effect one after the other, in the order in which
\* the handlers got the entry.
C8_OneMutator ==
    /\ \A r \in RoomIds : Cardinality(Holders(r)) <= 1
    /\ \A c \in Conns : h[c].guard # 0 => Entry(rooms, h[c].guard) = h[c].view

\* The contestant's handler holds the entry of a game that has started, with
\* a send still to make, and the host's handler waits for it with a request.
C8_Witness ==
    \E c, d \in Conns :
        /\ h[c].pc = "send" /\ h[c].guard # 0
        /\ h[c].role = ContestantOf(h[c].guard)
        /\ rooms[h[c].guard].room.state.tag = "Started"
        /\ h[d].pc = "blocked" /\ h[d].wait = h[c].guard
        /\ h[d].role = HostOf(h[c].guard)

\* C9: a GameError is enqueued only on the response channel of the connection
\* whose request it answers, never on the other participant's.
C9_ErrorOnlyToRequester ==
    \A c \in Conns : \A i \in 1..Len(resp[c]) :
        resp[c][i].resp = "GameError" => resp[c][i].by = c

\* C10: while a handler is answering its request with a GameError, the
\* registry entry it holds (the room's settings and RoomState, the host and
\* contestant senders) stays as it was before the request, up to and with
\* the step that ends the handling.
C10_Step ==
    \A c \in Conns :
        (h[c].pc = "send" /\ h[c].answer = "GameError" /\ h[c].guard # 0)
            => Entry(rooms', h[c].guard) = h[c].pre
C10_ErrorLeavesRoom == [][C10_Step]_vars

\* The (role, request) pairs the dispatcher rejects.
Rejected(tag, q) ==
    \/ /\ tag = "Guest"
       /\ q.action \in {"UpdateSettings", "Start", "Reveal", "Complete",
                        "Ready", "Choose", "Decide", "ExitRoom"}
    \/ /\ tag = "Host"
       /\ q.action \in {"CreateRoom", "EnterRoom", "Ready", "Choose", "Decide"}
    \/ /\ tag = "Contestant"
       /\ q.action \in {"CreateRoom", "EnterRoom", "UpdateSettings", "Start",
                        "Reveal", "Complete"}

\* The handler of c can take up request q now.
CanHandle(c, q) == h[c].pc \in {"recv", "blocked"} /\ ~Blocked(c, q)

\* The handling p of a request of c changes neither the registry nor any
\* entry, also after its sends, and sends to nobody but c.
LeavesRegistry(c, p) ==
    /\ ~p.exit /\ p.rooms = rooms
    /\ ~p.then_clear /\ p.then_remove = 0 /\ ~p.created
    /\ p.dropper = h[c].dropper
    /\ \A i \in 1..Len(p.out) : p.out[i].to = c

\* The role the handling p leaves its connection with.
RoleAfter(p) == IF p.then_guest THEN Guest ELSE p.role

\* The handling p answers c with one GameError and keeps c's role.
RejectedWithGameError(c, p) ==
    /\ LeavesRegistry(c, p)
    /\ p.out = <<To(c, GameError("InvalidOperation"))>>
    /\ RoleAfter(p) = h[c].role

\* The role of c names a room, and q is matched in the arm of that role.
InRoleArm(c, q) ==
    /\ h[c].role.tag \in {"Host", "Contestant"}
    /\ q.action \notin {"ListRooms", "CreateRoom", "EnterRoom"}

C11_Body(strict) ==
    \A c \in Conns : \A q \in Requests :
        (CanHandle(c, q) /\ Rejected(h[c].role.tag, q)) =>
            LET p == Dispatch(c, q, 0, <<>>)
                stale == InRoleArm(c, q) /\ h[c].role.room_id \notin DOMAIN rooms
                kicked == /\ InRoleArm(c, q) /\ ~stale
                          /\ h[c].role.tag = "Contestant"
                          /\ rooms[h[c].role.room_id].room.state.tag = "Created"
            IN  CASE stale /\ ~strict ->
                       /\ LeavesRegistry(c, p)
                       /\ p.out = <<To(c, RoomNotFound(h[c].role.room_id))>>
                       /\ RoleAfter(p) = Guest
                  [] kicked /\ ~strict ->
                       /\ LeavesRegistry(c, p)
                       /\ p.out = <<To(c, Resp("Exited", c))>>
                       /\ RoleAfter(p) = Guest
                  [] OTHER -> RejectedWithGameError(c, p)

\* C11 (as the code has it): for every rejected (role, request) pair the
\* requester alone is answered and neither the registry nor any entry is
\* modified.  The answer is GameError(InvalidOperation) and the role stays,
\* except in the arm of a Host or Contestant role whose room is gone
\* (RoomNotFound, the role becomes Guest) and in the arm of a Contestant
\* whose room is in state Created (Exited, the role becomes Guest).
C11_RejectedPairs == C11_Body(FALSE)

\* C11 as stated: every rejected pair is answered with a GameError, and no
\* role is modified.
C11_Original == C11_Body(TRUE)

\* A Contestant of a started game is being answered for a request of the
\* host's: the one GameError goes to it alone, and it holds the entry.
C11_Witness ==
    \E c \in Conns :
        /\ h[c].pc = "send" /\ h[c].role.tag = "Contestant"
        /\ h[c].guard = h[c].role.room_id
        /\ rooms[h[c].guard].room.state.tag = "Started"
        /\ h[c].out = <<To(c, GameError("InvalidOperation"))>>

\* What a Guest's CreateRoom and EnterRoom do: the one makes it the Host of a
\* new entry, the other the Contestant of the room it names, if that is there
\* and in state Created.
GuestCanStartOver(c) ==
    \A q \in Requests :
        /\ q.action = "CreateRoom" =>
              LET p == Dispatch(c, q, 0, <<>>)
              IN  /\ p.role = HostOf(next_room) /\ ~p.then_guest
                  /\ DOMAIN p.rooms = DOMAIN rooms \cup {next_room}
                  /\ p.rooms[next_room].host = c
        /\ (/\ q.action = "EnterRoom" /\ q.id \in DOMAIN rooms
            /\ rooms[q.id].room.state.tag = "Created") =>
              LET p == Dispatch(c, q, 0, <<>>)
              IN  /\ p.role = ContestantOf(q.id) /\ ~p.then_guest
                  /\ p.rooms[q.id].contestant = c

\* C12: a request matched in the arm of a Host{r} or Contestant{r} role when
\* r is not in the registry is answered with RoomNotFound{r} to the requester
\* alone, the role becomes Guest, and no entry is created or modified; the
\* Guest the handling leaves can CreateRoom and EnterRoom again.
C12_RoomNotFound ==
    \A c \in Conns :
        /\ \A q \in Requests :
              (/\ CanHandle(c, q) /\ InRoleArm(c, q)
               /\ h[c].role.room_id \notin DOMAIN rooms) =>
                  LET p == Dispatch(c, q, 0, <<>>)
                  IN  /\ LeavesRegistry(c, p)
                      /\ p.out = <<To(c, RoomNotFound(h[c].role.room_id))>>
                      /\ RoleAfter(p) = Guest
        /\ (h[c].pc = "send" /\ h[c].then_guest) =>
              /\ h[c].guard = 0 /\ ~h[c].then_clear /\ h[c].then_remove = 0
              /\ \E r \in RoomIds : h[c].out = <<To(c, RoomNotFound(r))>>
        /\ (h[c].pc = "recv" /\ h[c].role = Guest) => GuestCanStartOver(c)

\* The contestant of a room that is gone is being answered RoomNotFound.
C12_Witness ==
    \E c \in Conns :
        /\ h[c].pc = "send" /\ h[c].then_guest
        /\ h[c].role.tag = "Contestant"
        /\ h[c].role.room_id \notin DOMAIN rooms
        /\ h[c].out = <<To(c, RoomNotFound(h[c].role.room_id))>>

\* Connection c owns room r: its RoomDropper is set to r, and r is there.
Owns(c, r) == h[c].dropper = r /\ r \in DOMAIN rooms

\* The first part of C13, a property of ServerLive: once the websocket loop
\* of the connection that owns a room has stopped, the room leaves the
\* registry.
C13_RoomGone ==
    \A c \in Conns : \A r \in RoomIds :
        (~ws[c] /\ Owns(c, r)) ~> (r \notin DOMAIN rooms)

\* C13 (its last part): when the host's connection has ended, the former
\* contestant's next command is answered, with RoomNotFound; so the request
\* handler of a Contestant whose own websocket loop runs has not returned.
C13_FormerContestantAnswered ==
    \A c \in Conns :
        (h[c].role.tag = "Contestant" /\ ws[c]) => h[c].pc \notin {"drop", "done"}

ExitRooms == {q \in Requests : q.action = "ExitRoom"}

\* What holds of a Host's ExitRoom, whoever is the room's contestant: it
\* makes the host a Guest and sends Exited to the
\* host and to the contestant sender of the entry, if it has one, holding
\* the entry; the handling ends with the removal of the room (by the
\* deferred remove or, when a send failed, by the RoomDropper), so a
\* connection that was the room's host and has finished its ExitRoom has no
\* room in the registry.
HostExit ==
    \A c \in Conns :
        /\ \A q \in ExitRooms :
              (/\ CanHandle(c, q) /\ h[c].role.tag = "Host"
               /\ h[c].role.room_id \in DOMAIN rooms) =>
                  LET r == h[c].role.room_id
                      ra == rooms[r]
                      p == Dispatch(c, q, 0, <<>>)
                  IN  /\ p.out = <<To(ra.host, Resp("Exited", c))>>
                                 \o (IF ra.contestant # 0
                                     THEN <<To(ra.contestant, Resp("Exited", c))>>
                                     ELSE <<>>)
                      /\ ra.host = c
                      /\ RoleAfter(p) = Guest
                      /\ p.guard = r /\ p.then_remove = r /\ ~p.exit
                      /\ p.rooms = rooms
        /\ h[c].pc = "remove" => h[c].role = Guest /\ h[c].then_remove = h[c].dropper
        /\ (/\ h[c].role = Guest /\ h[c].dropper # 0
            /\ h[c].then_remove = 0 /\ h[c].pc # "drop") =>
                h[c].dropper \notin DOMAIN rooms

\* A host has finished its ExitRoom: it is a Guest, its room is gone, and the
\* Exited it sent is in the channel of the other connection.
HostExited ==
    \E c, d \in Conns :
        /\ c # d /\ h[c].role = Guest /\ h[c].pc = "recv"
        /\ h[c].dropper # 0 /\ h[c].dropper \notin DOMAIN rooms
        /\ resp[d] # <<>>
        /\ Head(resp[d]) = [resp |-> "Exited", val |-> c, by |-> c]

\* C14: when a Host sends ExitRoom, Exited is sent to the host and to the
\* contestant of the room, if the room has one (its state is Joined or
\* Started), the host becomes a Guest, and the handling ends with the
\* removal of the room.
C14_HostExitNotifies ==
    /\ HostExit
    /\ \A c \in Conns : \A q \in ExitRooms :
          (/\ CanHandle(c, q) /\ h[c].role.tag = "Host"
           /\ h[c].role.room_id \in DOMAIN rooms) =>
              LET ra == rooms[h[c].role.room_id]
                  p == Dispatch(c, q, 0, <<>>)
              IN  ra.room.state.tag \in {"Joined", "Started"} =>
                      \E i \in 1..Len(p.out) :
                          p.out[i] = To(ra.room.state.contestant, Resp("Exited", c))

\* C15: once a Contestant's ExitRoom has been handled, the room's entry no
\* longer holds that connection's response channel: an entry has as its
\* contestant sender only that of a connection whose role is Contestant of
\* this room, unless that connection's handler holds the entry or has
\* returned.
C15_ExitClearsBinding ==
    \A c \in Conns : \A r \in DOMAIN rooms :
        (/\ rooms[r].contestant = c /\ h[c].guard # r
         /\ h[c].pc \notin {"drop", "done"}) => h[c].role = ContestantOf(r)

\* A Guest c can take up EnterRoom q for a room that exists and is not Created.
LateEnter(c, q) ==
    /\ h[c].role = Guest /\ CanHandle(c, q)
    /\ q.action = "EnterRoom" /\ q.id \in DOMAIN rooms
    /\ rooms[q.id].room.state.tag # "Created"

\* The refused entry changes neither the registry nor the guest's role.
LateEnterKeepsRoom ==
    \A c \in Conns : \A q \in Requests :
        LateEnter(c, q) =>
            LET p == Dispatch(c, q, 0, <<>>)
            IN  p.rooms = rooms /\ RoleAfter(p) = Guest /\ p.then_remove = 0

\* Some Guest faces a room that already has its contestant.
LateEnterPossible == \E c \in Conns : \E q \in Requests : LateEnter(c, q)

\* C16: a Guest's EnterRoom for an existing room that is not Created is
\* answered with a GameError to the guest, leaves the room, its contestant and
\* the guest's role as they are, and the guest's handler goes on receiving.
C16_LateEnterRecoverable ==
    \A c \in Conns : \A q \in Requests :
        LateEnter(c, q) => RejectedWithGameError(c, Dispatch(c, q, 0, <<>>))

\* The contestant the state of room r of registry reg is bound to, or 0.
BoundContestant(reg, r) ==
    IF r \in DOMAIN reg /\ reg[r].room.state.tag # "Created"
    THEN reg[r].room.state.contestant ELSE 0

\* A Guest's EnterRoom for an existing room binds the guest from Created, as
\* Joined and not ready, and changes nothing from any other state.
AcceptRule ==
    \A c \in Conns : \A q \in Requests :
        ( /\ h[c].role = Guest /\ CanHandle(c, q)
          /\ q.action = "EnterRoom" /\ q.id \in DOMAIN rooms ) =>
            LET p == Dispatch(c, q, 0, <<>>)
            IN  IF rooms[q.id].room.state.tag = "Created"
                THEN /\ p.rooms[q.id].room.state = Joined(c, FALSE)
                     /\ p.role = ContestantOf(q.id)
                ELSE /\ p.rooms = rooms
                     /\ RoleAfter(p) = Guest

\* The running handlers whose connection is the Contestant of room r.
ContestantsOf(r) ==
    {c \in Conns : h[c].role = ContestantOf(r) /\ h[c].pc \notin {"drop", "done"}}

OneContestant == \A r \in DOMAIN rooms : Cardinality(ContestantsOf(r)) <= 1

\* The room's contestant changes only from or to none, and a connection that
\* becomes Contestant of r is the one r has just bound, under r's lock.
BindStep ==
    /\ \A r \in RoomIds :
           \/ BoundContestant(rooms, r) = BoundContestant(rooms', r)
           \/ BoundContestant(rooms, r) = 0
           \/ BoundContestant(rooms', r) = 0
    /\ \A c \in Conns : \A r \in RoomIds :
           (h[c].role = Guest /\ h'[c].role = ContestantOf(r)) =>
               /\ BoundContestant(rooms, r) = 0
               /\ r \in DOMAIN rooms'
               /\ rooms'[r].room.state = Joined(c, FALSE)
               /\ h'[c].guard = r

\* C17: accept_contestant succeeds only from Created and gives
\* Joined{contestant: id, ready: false}; a room's contestant changes only by
\* way of Created, and of the guests that send EnterRoom for one room at the
\* same time at most one becomes its Contestant.
C17_Step == AcceptRule /\ AcceptRule' /\ OneContestant /\ OneContestant' /\ BindStep
C17_OneContestant == [][C17_Step]_vars

\* Two guests asked for the same room: one has entered and holds its lock,
\* the other waits for the lock.
C17_Witness ==
    \E c, d \in Conns : \E r \in DOMAIN rooms :
        /\ c # d
        /\ h[c].guard = r /\ h[c].role = ContestantOf(r)
        /\ BoundContestant(rooms, r) = c
        /\ h[d].pc = "blocked" /\ h[d].wait = r /\ h[d].role = Guest

\* C18: update_settings(new) from Created replaces the settings and returns
\* false; from Joined with new equal to the settings it changes nothing (ready
\* keeps its value) and returns false; from Joined with new different it
\* replaces the settings, sets ready to false and returns true.
C18_UpdateSettings ==
    \A s \in SettingsSet :
        LET upd == update_settings(room, s)
        IN  /\ room.state.tag = "Created" =>
                  /\ upd.room = [room EXCEPT !.settings = s]
                  /\ upd.res = Ok(FALSE)
            /\ (room.state.tag = "Joined" /\ s = room.settings) =>
                  /\ upd.room = room
                  /\ upd.res = Ok(FALSE)
            /\ (room.state.tag = "Joined" /\ s # room.settings) =>
                  /\ upd.room.settings = s
                  /\ upd.room.state = Joined(room.state.contestant, FALSE)
                  /\ upd.res = Ok(TRUE)

\* New settings have reset a ready contestant; the same settings would now
\* leave a ready contestant ready.
C18_Witness ==
    /\ last.op = "update_settings" /\ last.pre.tag = "Joined" /\ last.pre.ready
    /\ last.res = Ok(TRUE) /\ room.settings = last.arg
    /\ room.state = Joined(last.pre.contestant, FALSE)

\* In Started, update_settings fails with InvalidOperation and changes nothing.
SettingsFrozen ==
    room.state.tag = "Started" =>
        \A s \in SettingsSet :
            /\ update_settings(room, s).res = Err("InvalidOperation")
            /\ update_settings(room, s).room = room

\* C20: in every Started state update_settings fails with InvalidOperation
\* and leaves the settings as they are, and no call that enters Started or
\* stays in it changes doors or rounds.
C20_Step ==
    /\ SettingsFrozen /\ SettingsFrozen'
    /\ room'.state.tag = "Started" => room'.settings = room.settings
C20_SettingsImmutable == [][C20_Step]_vars

\* update_settings was refused in a started game whose settings it would
\* have changed.
C20_Witness ==
    /\ last.op = "update_settings" /\ last.pre.tag = "Started"
    /\ last.res = Err("InvalidOperation")
    /\ last.arg # room.settings /\ room.state = last.pre

\* The Host c of a registered room can take up UpdateSettings q.
HostUpdate(c, q) ==
    /\ h[c].role.tag = "Host" /\ h[c].role.room_id \in DOMAIN rooms
    /\ CanHandle(c, q) /\ q.action = "UpdateSettings"

\* The SettingsUpdated response to q.
SettingsUpdated(q, notify) ==
    Resp("SettingsUpdated", [settings |-> q.settings, notify |-> notify])

\* q changes the settings of the Joined room r.
MaterialChange(r, q) ==
    /\ rooms[r].room.state.tag = "Joined"
    /\ rooms[r].room.settings # q.settings

\* Without a material change the host alone is answered; with one, the
\* response goes to the host and to the contestant Sender of the entry.
UpdatePublished ==
    \A c \in Conns : \A q \in Requests :
        HostUpdate(c, q) =>
            LET r == h[c].role.room_id
                p == Dispatch(c, q, 0, <<>>)
            IN  /\ rooms[r].host = c
                /\ (rooms[r].room.state.tag # "Started" /\ ~MaterialChange(r, q)) =>
                      p.out = <<To(c, SettingsUpdated(q, FALSE))>>
                /\ MaterialChange(r, q) =>
                      p.out = publish(rooms[r], SettingsUpdated(q, TRUE))

\* A host can change the settings of its Joined room.
MaterialChangePossible ==
    \E c \in Conns : \E q \in Requests :
        HostUpdate(c, q) /\ MaterialChange(h[c].role.room_id, q)

\* C19: a Host's UpdateSettings without a material change is answered with
\* SettingsUpdated on the host's channel only; one that changes the settings
\* of a Joined room is answered with SettingsUpdated on the host's channel
\* and on the channel of the room's contestant.
C19_SettingsBroadcast ==
    \A c \in Conns : \A q \in Requests :
        HostUpdate(c, q) =>
            LET r == h[c].role.room_id
                p == Dispatch(c, q, 0, <<>>)
            IN  /\ (rooms[r].room.state.tag # "Started" /\ ~MaterialChange(r, q)) =>
                      p.out = <<To(c, SettingsUpdated(q, FALSE))>>
                /\ MaterialChange(r, q) =>
                      p.out = <<To(c, SettingsUpdated(q, TRUE)),
                                To(BoundContestant(rooms, r), SettingsUpdated(q, TRUE))>>

\* The responses that report the progress of a game.
ProgressResponses == {"Ready", "Chosen", "Revealed", "Decided", "Completed"}

\* c, of a registered room, can take up q, and the room accepts it as a step
\* of the game when gen_range draws x: p is the handling.
Progress(c, q, x) ==
    /\ h[c].role.tag \in {"Host", "Contestant"}
    /\ h[c].role.room_id \in DOMAIN rooms
    /\ CanHandle(c, q)
    /\ x \in RandomOf(c, q)
    /\ LET p == Dispatch(c, q, x, <<>>)
       IN  /\ ~p.exit /\ Len(p.out) > 0
           /\ p.out[1].msg.resp \in ProgressResponses

\* A step of the game is published: to the host's Sender of the entry, then
\* to its contestant's Sender, under the lock of the room.
ProgressPublished ==
    \A c \in Conns : \A q \in Requests : \A x \in 0..MaxDoors :
        Progress(c, q, x) =>
            LET r == h[c].role.room_id
                p == Dispatch(c, q, x, <<>>)
            IN  /\ p.out = publish(rooms[r], p.out[1].msg)
                /\ p.guard = r

\* A step of the game can be taken.
ProgressPossible ==
    \E c \in Conns : \E q \in Requests : \E x \in 0..MaxDoors : Progress(c, q, x)

\* C21: every successful Ready, Chosen, Revealed, Decided and Completed is
\* sent to the host of the room and to the contestant the room is bound to,
\* in the order in which the room took the steps.
C21_ProgressToBoth ==
    \A c \in Conns : \A q \in Requests : \A x \in 0..MaxDoors :
        Progress(c, q, x) =>
            LET r == h[c].role.room_id
                p == Dispatch(c, q, x, <<>>)
            IN  /\ p.guard = r
                /\ p.out = <<To(rooms[r].host, p.out[1].msg),
                             To(BoundContestant(rooms, r), p.out[1].msg)>>

\* The Host c of a registered room can take up Start q, and the room starts
\* a round when gen_range draws x.
StartOk(c, q, x) ==
    /\ h[c].role.tag = "Host" /\ h[c].role.room_id \in DOMAIN rooms
    /\ CanHandle(c, q) /\ q.action = "Start"
    /\ x \in RandomOf(c, q)
    /\ LET p == Dispatch(c, q, x, <<>>)
       IN  ~p.exit /\ Len(p.out) > 0 /\ p.out[1].msg.resp = "Started"

\* What a started round sends to others than the host.
ToOthers(p) == [i \in 1..(Len(p.out) - 1) |-> p.out[i + 1]]

\* The host is sent Started with the prize of the round; whoever else is sent
\* anything is sent ContestantStarted, the same for every prize drawn; and a
\* Started in a response channel was put there by the connection's own handler.
StartSecret ==
    /\ \A c \in Conns : \A q \in Requests : \A x \in 0..MaxDoors :
          StartOk(c, q, x) =>
              LET r == h[c].role.room_id
                  p == Dispatch(c, q, x, <<>>)
                  isRandom == q.prize.type = "Random"
              IN  /\ p.out[1] = To(c, Resp("Started",
                                      [prize |-> p.rooms[r].room.state.prize,
                                       random |-> isRandom]))
                  /\ \A i \in 2..Len(p.out) :
                        /\ p.out[i].to # c
                        /\ p.out[i].msg = Resp("ContestantStarted", [random |-> isRandom])
                  /\ \A y \in RandomOf(c, q) :
                        StartOk(c, q, y) => ToOthers(Dispatch(c, q, y, <<>>)) = ToOthers(p)
    /\ \A d \in Conns : \A i \in 1..Len(resp[d]) :
          resp[d][i].resp = "Started" => resp[d][i].by = d

\* A host can start a round in a room bound to a contestant.
StartPossible ==
    \E c \in Conns : \E q \in Requests : \E x \in 0..MaxDoors : StartOk(c, q, x)

\* C22: on every successful Start the host is sent Started with the prize and
\* the room's contestant is sent ContestantStarted, without the prize and the
\* same whatever the prize; no contestant is ever sent a Started.
C22_StartPerRecipient ==
    /\ StartSecret
    /\ \A c \in Conns : \A q \in Requests : \A x \in 0..MaxDoors :
          StartOk(c, q, x) =>
              LET r == h[c].role.room_id
                  p == Dispatch(c, q, x, <<>>)
              IN  /\ Len(p.out) = 2
                  /\ p.out[2].to = BoundContestant(p.rooms, r)

\* The handler of c is in RoomAgent::publish, before the send to the host.
InPublish(c) ==
    /\ h[c].pc = "send" /\ Len(h[c].out) = 2
    /\ h[c].out[1].msg = h[c].out[2].msg

\* With the contestant's channel closed and the host's open, publish has
\* enqueued the message for the host before its send to the contestant fails.
HostServedFirst ==
    \A c \in Conns :
        (InPublish(c) /\ ws[h[c].out[1].to] /\ h'[c] # h[c]) =>
            /\ h'[c].pc = "send" /\ h'[c].out = <<h[c].out[2]>>
            /\ resp'[h[c].out[1].to] =
                   Append(resp[h[c].out[1].to],
                          [resp |-> h[c].out[1].msg.resp,
                           val |-> h[c].out[1].msg.val, by |-> c])
PublishHostFirst == [][HostServedFirst]_vars

\* C23: when one of the two channels of a publish is closed, the message is
\* still enqueued on the other: with the host's channel closed and the
\* contestant's open, publish goes on to the send to the contestant.
C23_Step ==
    \A c \in Conns :
        (/\ InPublish(c)
         /\ ~ws[h[c].out[1].to] /\ ws[h[c].out[2].to]
         /\ h'[c] # h[c]) =>
            h'[c].pc = "send" /\ h'[c].out = <<h[c].out[2]>>
C23_PublishPartial == [][C23_Step]_vars

\* C24: a closed channel ends only the tasks of its own connection: a handler
\* whose send to another connection's closed channel fails goes on, it does
\* not return (and its RoomDropper does not remove the room it hosts).
C24_Step ==
    \A c \in Conns :
        (/\ h[c].pc = "send"
         /\ Head(h[c].out).to # c /\ ~ws[Head(h[c].out).to]
         /\ h'[c] # h[c]) =>
            h'[c].pc \notin {"drop", "done"}
C24_OthersFailureSurvived == [][C24_Step]_vars

\* The handler of c waits for a place in c's own response channel, which only
\* c's websocket loop empties, and that loop waits for a place in the request
\* channel, which only the handler empties.
CircularWait(c) ==
    /\ ws[c]
    /\ h[c].pc = "send" /\ Head(h[c].out).to = c /\ Len(resp[c]) >= RespCap
    /\ pending[c] # <<>> /\ ~ReqRoom(c)

\* The handler of d waits for the lock of a room whose holder is in a
\* circular wait with its own websocket loop.
StalledByOther(d) ==
    /\ h[d].pc = "blocked"
    /\ \E c \in Conns \ {d} : h[c].guard = h[d].wait /\ CircularWait(c)

\* C25: no task waits for ever: no handler and websocket loop wait for each
\* other across the two full channels of a connection (and so no handler of
\* another connection waits for ever for the lock such a handler holds).
C25_NoCircularWait == \A c \in Conns : ~CircularWait(c)

\* The ids of the rooms created so far: a Uuid is never used twice.
Created_ids == 1..(next_room - 1)

\* The handler of c takes a step.
Acts(c) == h'[c] # h[c]

\* A room leaves the registry by a step of its host's handler and stays out;
\* no such step touches another entry; and a remove of an id that is not in
\* the registry (ExitRoom before the disconnect, or before a CreateRoom)
\* changes nothing.
RemovedOnce ==
    /\ \A r \in DOMAIN rooms :
          r \notin DOMAIN rooms' =>
              /\ Acts(rooms[r].host)
              /\ \A x \in DOMAIN rooms \ {r} :
                    x \in DOMAIN rooms' /\ rooms'[x] = rooms[x]
    /\ \A r \in Created_ids : r \notin DOMAIN rooms => r \notin DOMAIN rooms'
    /\ \A c \in Conns :
          (/\ Acts(c)
           /\ \/ h[c].pc = "drop" /\ h[c].dropper \notin DOMAIN rooms
              \/ h[c].pc = "remove" /\ h[c].then_remove \notin DOMAIN rooms) =>
              rooms' = rooms
    /\ \A c \in Conns :
          (/\ Acts(c) /\ h[c].pc = "recv" /\ h[c].role = Guest
           /\ h[c].dropper # 0 /\ h[c].dropper \notin DOMAIN rooms
           /\ next_room' # next_room) =>
              /\ DOMAIN rooms' = DOMAIN rooms \cup {next_room}
              /\ \A x \in DOMAIN rooms : rooms'[x] = rooms[x]

\* C26: a room is removed from the registry once, by the connection that
\* hosts it (ExitRoom or the RoomDropper); a further remove of the same id,
\* on disconnect or on a CreateRoom after ExitRoom, changes no entry.
C26_RemovedOnce == [][RemovedOnce]_vars

\* A host has left its room and is about to remove it again on disconnect,
\* while another room is in the registry.
C26_Witness ==
    \E c \in Conns :
        /\ h[c].pc = "drop" /\ h[c].dropper \in Created_ids
        /\ h[c].dropper \notin DOMAIN rooms
        /\ DOMAIN rooms # {}

\* A host that has left its room has created a new one, while another
\* host's room is in the registry.
SetRoomAfterExit ==
    \E c \in Conns : \E r \in DOMAIN rooms :
        /\ rooms[r].host = c /\ h[c].dropper = r
        /\ \E x \in Created_ids : x < r /\ x \notin DOMAIN rooms
        /\ \E y \in DOMAIN rooms : rooms[y].host # c

\* A handler that is about to call remove holds no RefMut.
RemoveUnlocked == \A c \in Conns : h[c].pc \in {"remove", "drop"} => h[c].guard = 0

\* C27: a handler never removes an entry of the registry while it holds the
\* RefMut of that entry: on Host ExitRoom, on the return after a failed send,
\* on a CreateRoom that replaces the RoomDropper's room and on disconnect the
\* RefMut is dropped before remove is called.
C27_Step ==
    /\ RemoveUnlocked /\ RemoveUnlocked'
    /\ \A c \in Conns : \A r \in DOMAIN rooms :
          (Acts(c) /\ r \notin DOMAIN rooms') => h[c].guard # r /\ CanLock(r)
    /\ \A c \in Conns :
          (Acts(c) /\ h[c].pc \in {"recv", "blocked"} /\ next_room' # next_room) =>
              h[c].guard = 0
C27_RemoveAfterGuard == [][C27_Step]_vars

\* A host's ExitRoom has published Exited and released the RefMut of the
\* room, which is still in the registry: the deferred remove is next.
C27_Witness ==
    \E c \in Conns :
        /\ h[c].pc = "remove" /\ h[c].guard = 0
        /\ h[c].then_remove \in DOMAIN rooms

\* A handler has returned, and its RoomDropper is about to remove the room
\* its connection hosts.
DropPending ==
    \E c \in Conns :
        /\ h[c].pc = "drop" /\ h[c].dropper \in DOMAIN rooms
        /\ ~ws[c] /\ rooms[h[c].dropper].host = c

\* doors = 3, rounds = 1: the round has started with the prize behind door 0
\* and the contestant has chosen door 1.
Scenario ==
    /\ room.settings = [doors |-> 3, rounds |-> 1]
    /\ room.state.tag = "Started"
    /\ room.state.prize = 0 /\ room.state.current_round = 0
    /\ room.state.stage = StageReveal(1)

\* The round of the scenario goes on with reveal(left) and the two decisions:
\* `accepted` is the door reveal takes, `refused` the one it rejects.
C28_Body(accepted, refused) ==
    Scenario =>
        LET v == reveal(room, accepted)
        IN  /\ v.res = Ok(Unit)
            /\ v.room.state.stage = StageDecide(1, accepted)
            /\ reveal(room, refused).res = Err("InvalidOperation")
            /\ reveal(room, refused).room = room
            /\ decide(v.room, "Switch").res.kind = "Ok"
            /\ decide(v.room, "Switch").res.val.win
            /\ decide(v.room, "Stick").res.kind = "Ok"
            /\ ~decide(v.room, "Stick").res.val.win

\* C28: with doors = 3 and rounds = 1, after accept_contestant,
\* contestant_ready(true), start with prize 0 and choose door 1, the reveal
\* that is accepted is the one that leaves door 0 closed (reveal(0)); the
\* host opens door 2, and reveal(2) is rejected; then decide(Switch) wins and,
\* on the same setup, decide(Stick) does not.
C28_Scenario == C28_Body(0, 2)

\* C28 as stated: reveal with door 2 is the accepted reveal.
C28_Original == C28_Body(2, 0)

\* The scenario was played to its end: the contestant switched to door 0
\* and won.
C28_Witness ==
    /\ room.settings = [doors |-> 3, rounds |-> 1]
    /\ last.op = "decide" /\ last.arg = "Switch" /\ IsOk
    /\ last.pre.prize = 0 /\ last.pre.stage = StageDecide(1, 0)
    /\ last.res.val.win

\* C29: every room in the registry has settings with doors >= 2 and
\* rounds >= 1, whatever Settings the clients send in CreateRoom and
\* UpdateSettings.
C29_ValidSettings ==
    \A r \in DOMAIN rooms :
        rooms[r].room.settings.doors >= 2 /\ rooms[r].room.settings.rounds >= 1

\* In a started game, the rounds recorded are those that have ended:
\* `asStated` says whether only the states after a first result are
\* counted, or every Started state by its stage.
C30_Body(asStated) ==
    room.state.tag = "Started" =>
        IF asStated
        THEN room.state.results # <<>> =>
                 Len(room.state.results) = room.state.current_round + 1
        ELSE Len(room.state.results) =
                 room.state.current_round + (IF is_end(room.state.stage) THEN 1 ELSE 0)

\* C30: in every reachable Started state the number of recorded results is
\* current_round + 1 in stage End, where the round has ended, and
\* current_round in the stages Choose, Reveal and Decide of a round.
C30_ResultsCount == C30_Body(FALSE)

\* C30 as stated: current_round + 1 whenever results is not empty.
C30_Original == C30_Body(TRUE)

\* The second round is being played: one result, current_round = 1.
C30_Witness ==
    /\ room.state.tag = "Started" /\ ~is_end(room.state.stage)
    /\ room.state.current_round = 1 /\ Len(room.state.results) = 1

\* Guest, or Host or Contestant of one room.
Roles == {Guest} \cup {HostOf(r) : r \in 1..MaxRooms + 1}
                 \cup {ContestantOf(r) : r \in 1..MaxRooms + 1}

\* The room of c's role is missing, or c is the Contestant of a room that is
\* back in Created: the role arm resets the role whatever the request.
RoleStale(c) ==
    /\ h[c].role.tag \in {"Host", "Contestant"}
    /\ \/ h[c].role.room_id \notin DOMAIN rooms
       \/ /\ h[c].role.tag = "Contestant"
          /\ rooms[h[c].role.room_id].room.state.tag = "Created"

\* The handling p of q changes the role of c as CreateRoom, EnterRoom and
\* ExitRoom do; with `reset`, also as the role arms do for a stale role.
RoleChange(c, q, p, reset) ==
    \/ RoleAfter(p) = h[c].role
    \/ /\ q.action = "CreateRoom" /\ h[c].role = Guest
       /\ RoleAfter(p) = HostOf(next_room)
    \/ /\ q.action = "EnterRoom" /\ h[c].role = Guest
       /\ RoleAfter(p) = ContestantOf(q.id)
    \/ /\ q.action = "ExitRoom" /\ h[c].role # Guest /\ RoleAfter(p) = Guest
    \/ /\ reset /\ RoleStale(c)
       /\ q.action \notin {"ListRooms", "CreateRoom", "EnterRoom"}
       /\ RoleAfter(p) = Guest

C31_Body(reset) ==
    /\ \A c \in Conns : h[c].role \in Roles
    /\ \A c \in Conns : \A q \in Requests :
          CanHandle(c, q) =>
              \A x \in RandomOf(c, q) :
                  RoleChange(c, q, Dispatch(c, q, x, <<>>), reset)

\* The role of c changes in steps of c's handler only: when it takes up a
\* request, or after the last send of one that makes it a Guest.
RoleStep ==
    \A c \in Conns :
        h'[c].role # h[c].role =>
            \/ h[c].pc \in {"recv", "blocked"} /\ h'[c].pc = "send"
            \/ h[c].pc = "send" /\ h[c].then_guest /\ h'[c].role = Guest
RoleInOwnHandler == [][RoleStep]_vars

\* C31: a role names at most one room, and the handling of a connection's
\* own request changes it only so: CreateRoom makes a Guest the Host of the
\* new room, EnterRoom makes a Guest the Contestant of the room entered,
\* ExitRoom makes a Guest; and any request matched in the arm of a Host or
\* Contestant whose room is missing, or of a Contestant whose room is back in
\* Created, makes a Guest.  No other handling changes the role.
C31_RoleChanges == C31_Body(TRUE)

\* C31 as stated: the role changes on CreateRoom, EnterRoom and ExitRoom only.
C31_Original == C31_Body(FALSE)

\* A kicked Contestant, whose room is back in Created, is at its Ready.
C31_Witness ==
    \E c \in Conns :
        /\ RoleStale(c) /\ h[c].role.room_id \in DOMAIN rooms
        /\ CanHandle(c, [action |-> "Ready", ready |-> TRUE])

\* ------------------------------------------------------------------- C32
\* What random_door(doors, exclusive) can return, over the draws of
\* gen_range(0..doors).
RandomDoorImage(doors, exclusive) ==
    {random_door(doors, exclusive, x) : x \in Draws(doors)}

\* random_door never returns `exclusive`, and distinct draws give distinct
\* doors.
RandomDoorSkips ==
    \A exclusive \in 0..(room.settings.doors - 1) :
        /\ exclusive \notin RandomDoorImage(room.settings.doors, exclusive)
        /\ \A x, y \in Draws(room.settings.doors) :
              random_door(room.settings.doors, exclusive, x)
                  = random_door(room.settings.doors, exclusive, y) => x = y

\* C32: for the room's doors >= 2 and every exclusive < doors, the values
\* random_door(doors, exclusive) can return are exactly [0, doors) without
\* exclusive, each the image of exactly one draw.
C32_RandomDoor ==
    room.settings.doors >= 2 =>
        \A exclusive \in 0..(room.settings.doors - 1) :
            /\ RandomDoorImage(room.settings.doors, exclusive)
                  = (0..(room.settings.doors - 1)) \ {exclusive}
            /\ \A v \in (0..(room.settings.doors - 1)) \ {exclusive} :
                  Cardinality({x \in Draws(room.settings.doors) :
                      random_door(room.settings.doors, exclusive, x) = v}) = 1

\* ------------------------------------------------------------------- C33
\* C33: a call of a Room method that returns an error leaves the room's
\* settings and state exactly as they were, and start, choose and reveal
\* with an explicit index >= doors return InvalidDoorIndex in every state.
C33_Step ==
    /\ last'.res.kind = "Err" => room' = room
    /\ (/\ last'.op \in {"start", "choose", "reveal"}
        /\ last'.arg >= room.settings.doors) =>
           last'.res = Err("InvalidDoorIndex")
C33_ErrorsLeaveRoom == [][C33_Step]_vars

\* An index out of range was refused in a state where the call would have
\* been refused anyway.
C33_Witness ==
    /\ last.op = "choose" /\ last.arg >= room.settings.doors
    /\ IsErr("InvalidDoorIndex")
    /\ room.state.tag = "Joined" /\ last.pre = room.state

\* ------------------------------------------------------------------- C34
\* C34: the handling of a Ready, Choose, Decide or ExitRoom changes a room
\* only when the sender's user id is the contestant recorded in that room.
C34_OnlyBoundContestant ==
    \A c \in Conns : \A q \in Requests :
        (/\ q.action \in {"Ready", "Choose", "Decide", "ExitRoom"}
         /\ CanHandle(c, q)) =>
            \A x \in RandomOf(c, q) :
                LET p == Dispatch(c, q, x, <<>>)
                IN  \A r \in DOMAIN rooms \cap DOMAIN p.rooms :
                        p.rooms[r].room # rooms[r].room =>
                            BoundContestant(rooms, r) = c

\* ------------------------------------------------------------------- C35
\* C35: every registry entry that no handler is working on holds a contestant
\* Sender exactly when its room is Joined or Started, and the Sender it holds
\* is that of the room's recorded contestant.
C35_ChannelIffBound ==
    \A r \in DOMAIN rooms :
        Holders(r) = {} =>
            /\ rooms[r].contestant # 0
                  <=> rooms[r].room.state.tag \in {"Joined", "Started"}
            /\ rooms[r].contestant # 0 =>
                  rooms[r].contestant = BoundContestant(rooms, r)

\* ------------------------------------------------------------------- C36
\* The role of c names a room that is in the registry in state Created: c was
\* its contestant and the host's Complete kicked it.
Kicked(c) ==
    /\ h[c].role.tag = "Contestant"
    /\ h[c].role.room_id \in DOMAIN rooms
    /\ rooms[h[c].role.room_id].room.state.tag = "Created"

\* C36: an ExitRoom, Ready, Choose or Decide, or a request of the host
\* (UpdateSettings, Start, Reveal, Complete), of a kicked contestant is not
\* applied: no room changes, the connection alone is sent Exited with its own
\* id, and its role becomes Guest.
C36_KickedTurnedAway ==
    \A c \in Conns : \A q \in Requests :
        (/\ Kicked(c) /\ CanHandle(c, q)
         /\ q.action \in {"ExitRoom", "Ready", "Choose", "Decide",
                          "UpdateSettings", "Start", "Reveal", "Complete"}) =>
            \A x \in RandomOf(c, q) :
                LET p == Dispatch(c, q, x, <<>>)
                IN  /\ LeavesRegistry(c, p)
                    /\ p.out = <<To(c, Resp("Exited", c))>>
                    /\ RoleAfter(p) = Guest

\* A kicked contestant has sent a request and is being answered.
C36_Witness ==
    \E c \in Conns :
        /\ h[c].pc = "send" /\ h[c].role = Guest
        /\ h[c].out = <<To(c, Resp("Exited", c))>>
        /\ h[c].guard \in DOMAIN rooms
        /\ rooms[h[c].guard].room.state.tag = "Created"
        /\ h[c].pre[h[c].guard].room.state.tag = "Created"
        /\ rooms[h[c].guard].host # c

\* ------------------------------------------------------------------- C38
\* The first `size` rooms of the snapshot `ord` from position page * size.
ListWindow(q, ord) ==
    LET skip == q.page * q.size
        rest == IF skip >= Len(ord) THEN 0 ELSE Len(ord) - skip
        n == IF rest > q.size THEN q.size ELSE rest
    IN  [i \in 1..n |-> RoomInfo(ord[i + skip], rooms[ord[i + skip]].room.settings)]

\* ListRooms is answered to the requester alone, whatever its role, with the
\* number of rooms in the registry as `total`, and changes no role or room.
ListAnswered ==
    \A c \in Conns : \A q \in Requests :
        (q.action = "ListRooms" /\ CanHandle(c, q)) =>
            \A ord \in Orders(q) :
                LET p == Dispatch(c, q, 0, ord)
                IN  /\ LeavesRegistry(c, p)
                    /\ RoleAfter(p) = h[c].role
                    /\ Len(p.out) = 1 /\ p.out[1].to = c
                    /\ p.out[1].msg.resp = "RoomList"
                    /\ p.out[1].msg.val.total = Cardinality(DOMAIN rooms)
                    /\ p.out[1].msg.val.page = q.page
                    /\ p.out[1].msg.val.size = q.size

\* C38: ListRooms{page, size} is allowed for every role, answered to the
\* requester only and changes no role or room; the RoomList holds the rooms
\* at positions page * size .. page * size + size - 1 of the snapshot, at
\* most `size` of them, and `total` is the number of rooms in the registry.
C38_ListRooms ==
    /\ ListAnswered
    /\ \A c \in Conns : \A q \in Requests :
          (q.action = "ListRooms" /\ CanHandle(c, q)) =>
              \A ord \in Orders(q) :
                  Dispatch(c, q, 0, ord).out[1].msg.val.rooms = ListWindow(q, ord)

\* ------------------------------------------------------------------- C37
\* The call of a Room method that the arm of a game request makes.
RoomCall(rm, q, x) ==
    CASE q.action = "Start" ->
           IF q.prize.type = "Random" THEN start_random(rm, x)
           ELSE start(rm, q.prize.index)
      [] q.action = "Choose" ->
           IF q.chosen.type = "Random" THEN choose_random(rm, x)
           ELSE choose(rm, q.chosen.index)
      [] q.action = "Reveal" ->
           IF q.left.type = "Random" THEN reveal_random(rm, x)
           ELSE reveal(rm, q.left.index)
      [] q.action = "Complete" -> complete(rm, q.kick_contestant)
      [] OTHER -> Ret(rm, Ok(Unit))

\* The arm of c's role passes q to the room the role names.
CallsRoom(c, q) ==
    /\ h[c].role.tag \in {"Host", "Contestant"}
    /\ h[c].role.room_id \in DOMAIN rooms
    /\ ~Kicked(c)
    /\ \/ h[c].role.tag = "Host" /\ q.action \in {"Start", "Reveal", "Complete"}
       \/ h[c].role.tag = "Contestant" /\ q.action = "Choose"

\* C37: no request a handler can take up makes it panic: the Room method it
\* calls neither underflows rounds - 1, nor draws from an empty range of
\* doors, nor fails random_door's assertion.
C37_NoPanic ==
    \A c \in Conns : \A q \in Requests :
        (CanHandle(c, q) /\ CallsRoom(c, q)) =>
            \A x \in RandomOf(c, q) :
                RoomCall(rooms[h[c].role.room_id].room, q, x).res.kind # "Panic"

\* ------------------------------------------------------------------- C40
\* After a successful start(prize) the room is Started in stage Choose.
StartResetsStage ==
    (last.op = "start" /\ IsOk) =>
        room.state.tag = "Started" /\ room.state.stage = StageChoose

\* After a successful start(prize) the room's prize is the supplied one.
StartStoresPrize ==
    (last.op = "start" /\ IsOk) => room.state.prize = last.arg

\* C40: in room.rs, after every successful start(prize), from
\* Joined{ready: true} and from Started in stage End, the room's prize is the
\* supplied prize and the stage is Choose, as with Room::start of lib.rs.
C40_DemoStart == StartResetsStage /\ StartStoresPrize

\* ------------------------------------------------------------------- C39
\* The handlers that have not returned and whose RoomDropper names room r.
Finalizers(r) == {c \in Conns : h[c].pc # "done" /\ h[c].dropper = r}

\* C39: a handler that is about to take up a request with role Host{r} finds
\* room r in the registry with its own connection as host, and every room in
\* the registry is the room of one handler that has not returned, its host's,
\* whose RoomDropper names that room.
C39_HostOwnsRoom ==
    /\ \A c \in Conns :
          (h[c].role.tag = "Host" /\ h[c].pc \in {"recv", "blocked"}) =>
              /\ h[c].role.room_id \in DOMAIN rooms
              /\ rooms[h[c].role.room_id].host = c
    /\ \A r \in DOMAIN rooms : Finalizers(r) = {rooms[r].host}

\* A host of its second room waits for a request next to another room.
C39_Witness ==
    \E c \in Conns :
        /\ h[c].pc = "recv" /\ h[c].role.tag = "Host"
        /\ h[c].role.room_id \in Created_ids \ {c}
        /\ Cardinality(DOMAIN rooms) >= 2

====
